---------------------------- MODULE Spec2Model ----------------------------
(***************************************************************************)
(* Model of the recommendation service of the online learning platform    *)
(* backend (services/recommendationService.js): the API usage tracker,    *)
(* the chat recommendation pipeline with its Groq call and search         *)
(* fallback, and the personalized recommendation pipeline with its OpenAI *)
(* call; and of the structured-reply pipeline of the recommendation       *)
(* controller and services/gptService.js; and of the enrollments:         *)
(* services/enrollmentService.js, the Enrollment model and the payment    *)
(* completion.  Every await of the source is a point where other          *)
(* invocations may run; the synchronous code between two awaits is one    *)
(* step.                                                                   *)
(*                                                                         *)
(* Text is modelled as sequences of one-character strings, so that        *)
(* lower-casing, splitting, regular-expression matching and parseInt are  *)
(* computed, not assumed.                                                  *)
(***************************************************************************)
EXTENDS Integers, Sequences, FiniteSets, TLC

VARIABLES
    env,                \* process.env: which API keys are configured
    courseStatus,       \* the status of every course of the Course collection
    apiRequestCount,    \* this.apiRequestCount
    requestsInWindow,   \* this.requestsInWindow (timestamps, ms)
    lastServiceUsed,    \* this.lastServiceUsed
    now,                \* Date.now() (ms since process start)
    calls,              \* one record per invocation slot (local state)
    dispatchLog,        \* time of every request sent to an AI provider
    dispatchedTo,       \* number of requests sent, per provider
    enrollments,        \* the Enrollment collection
    enrollmentCount,    \* enrollmentCount of every course
    enrolledCourses,    \* enrolledCourses of every student
    requests            \* one record per enrollment request slot (local state)

\* the state of the recommendation service and of the catalog
recommendationVars ==
    <<env, courseStatus, apiRequestCount, requestsInWindow, lastServiceUsed,
      now, calls, dispatchLog, dispatchedTo>>

\* the state of the enrollments
enrollmentVars ==
    <<enrollments, enrollmentCount, enrolledCourses, requests>>

vars ==
    <<recommendationVars, enrollmentVars>>

-----------------------------------------------------------------------------
(* Program constants (constructor of RecommendationService).               *)

maxApiRequests == 250

maxRequestsPerMinute == 10

rateLimitWindow ==
    60 * 1000

\* Course.find(...).limit(50) and availableCourses.slice(0, 20)
catalogFetchLimit == 50

promptExcerptLimit == 20

(* Bounds of the model.                                                     *)

\* number of invocation slots that may be in flight together
NumCalls == 2

\* the clock advances MaxTicks times by one rate-limit window
MaxTicks == 1

\* provider requests after which no further request is dispatched: enough
\* to fill a rate-limit window and send one request more
MaxDispatch == 11

\* the same cap where invocations are concurrent or the inputs are many
MaxDispatchShort == 3

\* requests the total ceiling is away when the service is observed near it
CeilingMargin == 2

\* requests the fullest observed rate-limit window is away from its limit
WindowMargin == 2

\* largest limit a caller asks for (0 is a limit a caller can send)
MaxLimit == 3

\* number of enrollment request slots that may be in flight together
NumRequests == 2

\* how far the enrollmentCount of a course may drift, above zero by
\* payments or below zero by cancellations, before the model stops
MaxCountDrift == 2

Calls ==
    1 .. NumCalls

Min(a, b) ==
    IF a <= b THEN a ELSE b

-----------------------------------------------------------------------------
(* Characters and strings.                                                  *)

UpperChars ==
    <<"A", "B", "C", "D", "E", "F", "G", "H", "I", "J", "K", "L", "M",
      "N", "O", "P", "Q", "R", "S", "T", "U", "V", "W", "X", "Y", "Z">>

LowerChars ==
    <<"a", "b", "c", "d", "e", "f", "g", "h", "i", "j", "k", "l", "m",
      "n", "o", "p", "q", "r", "s", "t", "u", "v", "w", "x", "y", "z">>

DigitChars ==
    <<"0", "1", "2", "3", "4", "5", "6", "7", "8", "9">>

Range(s) ==
    { s[i] : i \in 1 .. Len(s) }

IndexOf(s, ch) ==
    CHOOSE i \in 1 .. Len(s) : s[i] = ch

UpperSet ==
    Range(UpperChars)

DigitSet ==
    Range(DigitChars)

WordSet ==
    Range(UpperChars) \cup Range(LowerChars) \cup Range(DigitChars) \cup {"_"}

IsDigit(ch) ==
    ch \in DigitSet

DigitValue(ch) ==
    IndexOf(DigitChars, ch) - 1

\* \w of a JavaScript regular expression
IsWordChar(ch) ==
    ch \in WordSet

\* \s of a JavaScript regular expression (the inputs use the space only)
IsSpace(ch) ==
    ch = " "

LowerChar(ch) ==
    IF ch \in UpperSet THEN LowerChars[IndexOf(UpperChars, ch)] ELSE ch

\* String.prototype.toLowerCase
toLowerCase(s) ==
    [ i \in 1 .. Len(s) |-> LowerChar(s[i]) ]

RECURSIVE TrimLeft(_)
TrimLeft(s) ==
    IF s # << >> /\ IsSpace(s[1]) THEN TrimLeft(Tail(s)) ELSE s

RECURSIVE TrimRight(_)
TrimRight(s) ==
    IF s # << >> /\ IsSpace(s[Len(s)])
    THEN TrimRight(SubSeq(s, 1, Len(s) - 1))
    ELSE s

\* String.prototype.trim
trim(s) ==
    TrimRight(TrimLeft(s))

\* String.prototype.split(sep) for a one-character separator: the pieces
\* between separators, empty pieces kept
RECURSIVE SplitAcc(_, _, _, _)
SplitAcc(s, sep, cur, acc) ==
    IF s = << >> THEN Append(acc, cur)
    ELSE IF s[1] = sep THEN SplitAcc(Tail(s), sep, << >>, Append(acc, cur))
    ELSE SplitAcc(Tail(s), sep, Append(cur, s[1]), acc)

split(s, sep) ==
    SplitAcc(s, sep, << >>, << >>)

\* String.prototype.split(/\s+/): a run of white space is one separator; a
\* leading or trailing run leaves an empty piece at that end
RECURSIVE SplitSpacesAcc(_, _, _, _)
SplitSpacesAcc(s, cur, acc, inRun) ==
    IF s = << >> THEN Append(acc, cur)
    ELSE IF IsSpace(s[1])
         THEN IF inRun
              THEN SplitSpacesAcc(Tail(s), cur, acc, TRUE)
              ELSE SplitSpacesAcc(Tail(s), << >>, Append(acc, cur), TRUE)
    ELSE SplitSpacesAcc(Tail(s), Append(cur, s[1]), acc, FALSE)

splitOnSpaces(s) ==
    SplitSpacesAcc(s, << >>, << >>, FALSE)

\* Array.prototype.join(' ')
RECURSIVE joinWithSpace(_)
joinWithSpace(parts) ==
    IF parts = << >> THEN << >>
    ELSE IF Len(parts) = 1 THEN parts[1]
    ELSE parts[1] \o <<" ">> \o joinWithSpace(Tail(parts))

\* Array.prototype.slice(0, n) for n >= 0
sliceFirst(s, n) ==
    SubSeq(s, 1, Min(n, Len(s)))

\* the first run of digits of a token (the match of /\d+/), << >> if none
RECURSIVE TakeDigits(_)
TakeDigits(s) ==
    IF s # << >> /\ IsDigit(s[1]) THEN <<s[1]>> \o TakeDigits(Tail(s)) ELSE << >>

RECURSIVE FirstDigitRun(_)
FirstDigitRun(s) ==
    IF s = << >> THEN << >>
    ELSE IF IsDigit(s[1]) THEN TakeDigits(s)
    ELSE FirstDigitRun(Tail(s))

\* the decimal value of a non-empty run of digits
RECURSIVE DecimalValue(_)
DecimalValue(ds) ==
    IF ds = << >> THEN 0
    ELSE 10 * DecimalValue(SubSeq(ds, 1, Len(ds) - 1)) + DigitValue(ds[Len(ds)])

-----------------------------------------------------------------------------
(* Regular expressions: new RegExp(query, 'i').  The queries of the model   *)
(* are written with letters, digits, spaces and the quantifier "+"; every   *)
(* other character of a pattern is a literal here.                          *)

\* The compiled pattern: ok is FALSE when the constructor throws a
\* SyntaxError ("Nothing to repeat": a "+" with no atom before it), else
\* atoms is the sequence of atoms [ch, plus]
RECURSIVE CompileFrom(_, _)
CompileFrom(p, acc) ==
    IF p = << >> THEN [ok |-> TRUE, atoms |-> acc]
    ELSE IF p[1] = "+" THEN [ok |-> FALSE, atoms |-> << >>]
    ELSE IF Len(p) >= 2 /\ p[2] = "+"
         THEN CompileFrom(SubSeq(p, 3, Len(p)),
                          Append(acc, [ch |-> LowerChar(p[1]), plus |-> TRUE]))
    ELSE CompileFrom(Tail(p), Append(acc, [ch |-> LowerChar(p[1]), plus |-> FALSE]))

RegExp(pattern) ==
    CompileFrom(pattern, << >>)

\* does the compiled pattern, from atom k on, match text at position pos
RECURSIVE MatchesAt(_, _, _, _)
MatchesAt(text, pos, atoms, k) ==
    IF k > Len(atoms) THEN TRUE
    ELSE IF pos > Len(text) THEN FALSE
    ELSE IF LowerChar(text[pos]) # atoms[k].ch THEN FALSE
    ELSE IF atoms[k].plus
         THEN \/ MatchesAt(text, pos + 1, atoms, k + 1)
              \/ MatchesAt(text, pos + 1, atoms, k)
    ELSE MatchesAt(text, pos + 1, atoms, k + 1)

\* RegExp.prototype.test with the 'i' flag: a match anywhere in the text
RegExpTest(atoms, text) ==
    \E pos \in 1 .. Len(text) + 1 : MatchesAt(text, pos, atoms, 1)

\* text.match(new RegExp(term, 'gi')).length for a term of word characters:
\* the number of non-overlapping occurrences, scanning from the left
RECURSIVE CountMatches(_, _)
CountMatches(text, term) ==
    IF term = << >> \/ Len(text) < Len(term) THEN 0
    ELSE IF toLowerCase(SubSeq(text, 1, Len(term))) = toLowerCase(term)
         THEN 1 + CountMatches(SubSeq(text, Len(term) + 1, Len(text)), term)
    ELSE CountMatches(Tail(text), term)

-----------------------------------------------------------------------------
(* The course catalog (the Course collection), in natural order.  The       *)
(* recommendation service only reads it; status is the status a course is   *)
(* created with, courseStatus the one it has now.                           *)

Course1 ==
    [ id |-> 1,
      title |->
          <<"D", "a", "t", "a", " ", "V", "i", "s", "u", "a", "l", "i",
            "z", "a", "t", "i", "o", "n", " ", "w", "i", "t", "h", " ",
            "P", "y", "t", "h", "o", "n">>,
      description |-> <<"c", "h", "a", "r", "t", "s">>,
      tags |-> << <<"P", "y", "t", "h", "o", "n">> >>,
      category |->
          <<"d", "a", "t", "a">>,
      difficulty |->
          <<"b", "e", "g", "i", "n", "n", "e", "r">>,
      rating |-> 4,
      enrollmentCount |-> 10,
      status |-> "published" ]

Course2 ==
    [ id |-> 2,
      title |->
          <<"P", "y", "t", "h", "o", "n", " ", "D", "a", "t", "a", " ",
            "A", "n", "a", "l", "y", "s", "i", "s">>,
      description |-> <<"p", "a", "n", "d", "a", "s">>,
      tags |-> << <<"p", "y", "t", "h", "o", "n">>, <<"d", "a", "t", "a">> >>,
      category |->
          <<"p", "r", "o", "g", "r", "a", "m", "m", "i", "n", "g">>,
      difficulty |->
          <<"i", "n", "t", "e", "r", "m", "e", "d", "i", "a", "t", "e">>,
      rating |-> 4,
      enrollmentCount |-> 10,
      status |-> "published" ]

Course3 ==
    [ id |-> 3,
      title |->
          <<"C", "o", "o", "k", "i", "n", "g", " ", "B", "a", "s", "i",
            "c", "s">>,
      description |-> <<"k", "i", "t", "c", "h", "e", "n">>,
      tags |-> << <<"f", "o", "o", "d">> >>,
      category |->
          <<"l", "i", "f", "e", "s", "t", "y", "l", "e">>,
      difficulty |->
          <<"b", "e", "g", "i", "n", "n", "e", "r">>,
      rating |-> 5,
      enrollmentCount |-> 3,
      status |-> "published" ]

Course4 ==
    [ id |-> 4,
      title |->
          <<"P", "y", "t", "h", "o", "n">>,
      description |-> <<"p", "y", "t", "h", "o", "n">>,
      tags |-> << <<"p", "y", "t", "h", "o", "n">> >>,
      category |->
          <<"p", "r", "o", "g", "r", "a", "m", "m", "i", "n", "g">>,
      difficulty |->
          <<"a", "d", "v", "a", "n", "c", "e", "d">>,
      rating |-> 5,
      enrollmentCount |-> 0,
      status |-> "draft" ]

Courses ==
    <<Course1, Course2, Course3, Course4>>

(* Queries a caller sends and replies a provider gives.                     *)

\* "python data": two tokens; the whole text occurs in one title only
QueryPythonData ==
    <<"p", "y", "t", "h", "o", "n", " ", "d", "a", "t", "a">>

\* "Python": one token; two courses match and tie on rating and enrollment
QueryPython ==
    <<"P", "y", "t", "h", "o", "n">>

\* "c++": not a valid regular expression
QueryCpp ==
    <<"c", "+", "+">>

\* "co+king": a quantifier; matches "Cooking"
QueryCooking ==
    <<"c", "o", "+", "k", "i", "n", "g">>

\* "2,1,3": three positions of the excerpt
ContentTwoOneThree ==
    <<"2", ",", "1", ",", "3">>

\* "2, 9, 1": the second position is beyond the excerpt
ContentOutOfRange ==
    <<"2", ",", " ", "9", ",", " ", "1">>

\* "Number 3, 1.": positions inside words and punctuation
ContentNumbered ==
    <<"N", "u", "m", "b", "e", "r", " ", "3", ",", " ", "1", ".">>

\* "I cannot help with that": no position at all
ContentRefusal ==
    <<"I", " ", "c", "a", "n", "n", "o", "t", " ", "h", "e", "l", "p", " ",
      "w", "i", "t", "h", " ", "t", "h", "a", "t">>

\* "2,2,1": the same position twice
ContentRepeated ==
    <<"2", ",", "2", ",", "1">>

\* "0,2": a position below the first
ContentZeroFirst ==
    <<"0", ",", "2">>

Queries ==
    {QueryPythonData, QueryPython, QueryCpp, QueryCooking}

Contents ==
    {ContentTwoOneThree, ContentOutOfRange, ContentNumbered, ContentRefusal,
     ContentRepeated}

Limits ==
    0 .. MaxLimit

\* What the callers and the providers of a specification do: the queries
\* and limits callers send, the replies providers give, and the number of
\* provider requests after which the model sends no more.
ChatLoad ==
    [ queries |-> Queries, limits |-> Limits, contents |-> Contents,
      maxDispatch |-> MaxDispatchShort ]

ConcurrentLoad ==
    [ queries |-> {QueryPython}, limits |-> {MaxLimit - 1},
      contents |-> {ContentTwoOneThree, ContentRefusal},
      maxDispatch |-> MaxDispatchShort ]

CatalogLoad ==
    [ queries |-> {QueryPython}, limits |-> {MaxLimit - 1},
      contents |-> {ContentTwoOneThree, ContentOutOfRange, ContentZeroFirst},
      maxDispatch |-> MaxDispatchShort ]

UsageLoad ==
    [ queries |-> {QueryPython}, limits |-> {MaxLimit - 1},
      contents |-> {ContentTwoOneThree, ContentRefusal},
      maxDispatch |-> MaxDispatch ]

CourseById(id) ==
    CHOOSE c \in Range(Courses) : c.id = id

\* Course.find({ status: 'published' }).limit(50): the published courses in
\* natural order
publishedCourses ==
    sliceFirst(SelectSeq(Courses, LAMBDA c : courseStatus[c.id] = "published"),
               catalogFetchLimit)

\* the courses of a list of ids, in the order of the list
CoursesOf(ids) ==
    [ i \in 1 .. Len(ids) |-> CourseById(ids[i]) ]

\* the ids of a list of courses
IdsOf(courses) ==
    [ i \in 1 .. Len(courses) |-> courses[i].id ]

-----------------------------------------------------------------------------
(* The search fallback: searchCoursesBasic and calculateRelevanceScore.     *)

\* the $or filter of searchCoursesBasic, for a compiled searchRegex
MatchesSearch(course, atoms) ==
    /\ courseStatus[course.id] = "published"
    /\ \/ RegExpTest(atoms, course.title)
       \/ RegExpTest(atoms, course.description)
       \/ \E i \in 1 .. Len(course.tags) : RegExpTest(atoms, course.tags[i])
       \/ RegExpTest(atoms, course.category)

\* sort({ 'rating.average': -1, enrollmentCount: -1 }): a comes strictly
\* before b
SortsBefore(a, b) ==
    \/ a.rating > b.rating
    \/ a.rating = b.rating /\ a.enrollmentCount > b.enrollmentCount

\* Every order the database may return the matching courses in: sorted by
\* the sort key, courses equal on the whole key in any order (the sort names
\* no unique field)
SortedOrders(ids) ==
    { s \in [1 .. Cardinality(ids) -> ids] :
        /\ \A i, j \in DOMAIN s : i # j => s[i] # s[j]
        /\ \A i, j \in DOMAIN s :
              i < j => ~SortsBefore(CourseById(s[j]), CourseById(s[i])) }

\* Query.limit(n): a limit of 0 is no limit
ApplyLimit(s, n) ==
    IF n = 0 THEN s ELSE sliceFirst(s, n)

\* the orders Course.find(...).limit(limit).sort(...) may resolve to
SearchResults(atoms, limit) ==
    { ApplyLimit(s, limit) :
        s \in SortedOrders({ c.id : c \in { d \in Range(Courses) :
                                                MatchesSearch(d, atoms) } }) }

\* query.toLowerCase().replace(/[^\w\s]/gi, '').split(/\s+/)
\*      .filter(term => term.length > 2)
searchTermsOf(query) ==
    SelectSeq(
        splitOnSpaces(SelectSeq(toLowerCase(query),
                                LAMBDA ch : IsWordChar(ch) \/ IsSpace(ch))),
        LAMBDA term : Len(term) > 2)

\* the text calculateRelevanceScore searches
CourseText(course) ==
    toLowerCase(joinWithSpace(<<course.title, course.description>>
                              \o course.tags
                              \o <<course.category, course.difficulty>>))

RECURSIVE SumMatches(_, _)
SumMatches(text, terms) ==
    IF terms = << >> THEN 0
    ELSE CountMatches(text, terms[1]) + SumMatches(text, Tail(terms))

calculateRelevanceScore(course, searchTerms) ==
    IF Len(searchTerms) = 0 THEN 0
    ELSE SumMatches(CourseText(course), searchTerms)

\* the records searchCoursesBasic returns for the found courses;
\* recommendationScore is the fraction (limit - index) / limit, kept as
\* numerator and denominator (limit 0 gives 0/0 and -index/0)
FallbackRecords(ids, query, limit) ==
    [ i \in 1 .. Len(ids) |->
        [ id |-> ids[i],
          recommendationScore |-> [num |-> limit - (i - 1), den |-> limit],
          relevanceScore |->
              calculateRelevanceScore(CourseById(ids[i]), searchTermsOf(query)),
          recommendationService |-> "db-search" ] ]

-----------------------------------------------------------------------------
(* Parsing a provider reply into positions of the prompt excerpt.           *)

\* getChatRecommendations: num.trim().match(/\d+/), parseInt(match[0]) - 1,
\* or -1 when the piece holds no digit
chatIndexOf(piece) ==
    LET digits == FirstDigitRun(trim(piece))
    IN  IF digits = << >> THEN -1 ELSE DecimalValue(digits) - 1

\* content.split(',').map(...).filter(index >= 0 && index <
\*      Math.min(20, availableCourses.length)).slice(0, limit)
chatRecommendedIndices(content, available, limit) ==
    LET pieces == split(content, ",")
        mapped == [ i \in 1 .. Len(pieces) |-> chatIndexOf(pieces[i]) ]
        bound == Min(promptExcerptLimit, Len(available))
    IN  sliceFirst(SelectSeq(mapped, LAMBDA index : index >= 0 /\ index < bound),
                   limit)

\* generateAIRecommendations: parseInt(num.trim()) - 1; parseInt reads the
\* digits the trimmed piece starts with and gives NaN when there is none
\* (NaN - 1 is NaN, which the filter drops)
parseIntMinusOne(piece) ==
    LET digits == TakeDigits(trim(piece))
    IN  IF digits = << >> THEN [nan |-> TRUE, value |-> 0]
        ELSE [nan |-> FALSE, value |-> DecimalValue(digits) - 1]

\* content.split(',').map(...).filter(index >= 0 && index <
\*      limitedCourses.length).slice(0, limit)
aiRecommendedIndices(content, limitedCourses, limit) ==
    LET pieces == split(content, ",")
        mapped == [ i \in 1 .. Len(pieces) |-> parseIntMinusOne(pieces[i]) ]
        kept == SelectSeq(mapped, LAMBDA m : ~m.nan /\ m.value >= 0
                                             /\ m.value < Len(limitedCourses))
    IN  sliceFirst([ i \in 1 .. Len(kept) |-> kept[i].value ], limit)

\* rankScore with the rank counted from 1: the first record scores below 1
rankScoreFromOne(recommendedIndices, rank) ==
    [ num |-> Len(recommendedIndices) - (rank + 1),
      den |-> Len(recommendedIndices) ]

\* recommendationScore of the record at 0-based rank among the indices
rankScore(recommendedIndices, rank) ==
    [ num |-> Len(recommendedIndices) - rank, den |-> Len(recommendedIndices) ]

\* recommendedIndices.map((index, rank) => ({ ...courses[index], ... }));
\* relevanceScore is absent from these records (-1 here)
aiRecords(recommendedIndices, courses, service) ==
    [ i \in 1 .. Len(recommendedIndices) |->
        [ id |-> courses[recommendedIndices[i] + 1].id,
          recommendationScore |-> rankScore(recommendedIndices, i - 1),
          relevanceScore |-> -1,
          recommendationService |-> service ] ]

-----------------------------------------------------------------------------
(* generateBasicRecommendations, for a user with no enrollment history.     *)

userPreferences ==
    [ categories |-> { }, difficulties |-> { }, tags |-> { } ]

\* 1000 * Math.log(n), rounded, for the enrollment counts of the catalog
LogTimes1000(n) ==
    CASE n = 1 -> 0
      [] n = 4 -> 1386
      [] n = 11 -> 2398

\* 10000 times the score of generateBasicRecommendations
basicScore(course) ==
    10000 * ( (IF course.category \in userPreferences.categories THEN 3 ELSE 0)
            + (IF course.difficulty \in userPreferences.difficulties THEN 2 ELSE 0)
            + Cardinality({ i \in 1 .. Len(course.tags) :
                              course.tags[i] \in userPreferences.tags }) )
    + 5000 * course.rating
    + 3 * LogTimes1000(course.enrollmentCount + 1)

\* Array.prototype.sort((a, b) => b.score - a.score): stable, so courses of
\* equal score keep their order
RECURSIVE InsertByScore(_, _)
InsertByScore(sorted, course) ==
    IF sorted = << >> THEN <<course>>
    ELSE IF basicScore(course) > basicScore(sorted[1])
         THEN <<course>> \o sorted
    ELSE <<sorted[1]>> \o InsertByScore(Tail(sorted), course)

RECURSIVE SortByScore(_)
SortByScore(courses) ==
    IF courses = << >> THEN << >>
    ELSE InsertByScore(SortByScore(SubSeq(courses, 1, Len(courses) - 1)),
                       courses[Len(courses)])

generateBasicRecommendations(availableCourses, limit) ==
    LET sorted == sliceFirst(SortByScore(availableCourses), limit)
    IN  [ i \in 1 .. Len(sorted) |->
            [ id |-> sorted[i].id,
              recommendationScore |-> [num |-> basicScore(sorted[i]), den |-> 10000],
              relevanceScore |-> -1,
              recommendationService |-> "basic" ] ]

-----------------------------------------------------------------------------
(* The API usage tracker.                                                   *)

\* the filter keeping a timestamp that is exactly one window old
inWindowInclusive(window, t) ==
    SelectSeq(window, LAMBDA time : t - time <= rateLimitWindow)

\* requestsInWindow.filter(time => now - time < rateLimitWindow)
inWindow(window, t) ==
    SelectSeq(window, LAMBDA time : t - time < rateLimitWindow)

\* the check letting a request through while the window holds the limit
canMakeApiRequestInclusive(count, window, t) ==
    IF count >= maxApiRequests
    THEN [ allowed |-> FALSE, requestsInWindow |-> window ]
    ELSE [ allowed |-> Len(inWindow(window, t)) <= maxRequestsPerMinute,
           requestsInWindow |-> inWindow(window, t) ]

\* the check making room in a full window by dropping its oldest timestamp
canMakeApiRequestEvicting(count, window, t) ==
    IF count >= maxApiRequests
    THEN [ allowed |-> FALSE, requestsInWindow |-> window ]
    ELSE IF Len(inWindow(window, t)) < maxRequestsPerMinute
    THEN [ allowed |-> TRUE, requestsInWindow |-> inWindow(window, t) ]
    ELSE [ allowed |-> FALSE, requestsInWindow |-> Tail(inWindow(window, t)) ]

\* canMakeApiRequest: what it returns and the list it leaves behind (the
\* list is pruned only when the total limit lets the check get that far)
canMakeApiRequest(count, window, t) ==
    IF count >= maxApiRequests
    THEN [ allowed |-> FALSE, requestsInWindow |-> window ]
    ELSE [ allowed |-> Len(inWindow(window, t)) < maxRequestsPerMinute,
           requestsInWindow |-> inWindow(window, t) ]

\* trackApiRequest
trackApiRequest(count, window, t) ==
    [ apiRequestCount |-> count + 1, requestsInWindow |-> Append(window, t) ]

\* getApiUsageStats (apiKeyValid is left out)
getApiUsageStats ==
    [ totalRequests |-> apiRequestCount,
      maxRequests |-> maxApiRequests,
      lastServiceUsed |-> lastServiceUsed,
      remainingRequests |-> maxApiRequests - apiRequestCount,
      requestsInLastMinute |-> Len(inWindow(requestsInWindow, now)) ]

-----------------------------------------------------------------------------
(* Enrollment and progress: EnrollmentService (enrollInCourse,              *)
(* updateProgress, completeLesson, cancelEnrollment), the pre('save') hook  *)
(* and the unique index of the Enrollment model, and the payment            *)
(* completion of PaymentController.processPayment with                      *)
(* PaymentService.completeEnrollmentAfterPayment.  Every database           *)
(* operation is one step: the synchronous code that follows the previous    *)
(* await, then the operation itself.  An enrollment's id is its place in    *)
(* the collection.  A studentId is what the caller passes: the id, and      *)
(* whether it is passed as an ObjectId (req.user._id in the controllers)    *)
(* or as its string.                                                        *)

ENROLLMENT_STATUS ==
    [ PENDING |-> "pending", ACTIVE |-> "active", COMPLETED |-> "completed",
      DROPPED |-> "dropped" ]

\* MESSAGES.ERROR and the messages the service throws itself
ERROR ==
    [ COURSE_NOT_FOUND |-> "Course not found",
      ENROLLMENT_NOT_FOUND |-> "Enrollment not found",
      FORBIDDEN |-> "Forbidden access",
      ALREADY_ENROLLED |-> "User already enrolled in this course",
      NOT_AVAILABLE |-> "Course is not available for enrollment",
      CANNOT_CANCEL |-> "Cannot cancel completed enrollment",
      DUPLICATE_KEY |-> "E11000 duplicate key error",
      VALIDATION |-> "Enrollment validation failed",
      INVALID_SESSION |-> "Invalid payment session",
      PAYMENT_FAILED |-> "Failed to process payment" ]

\* the ids of the courses of the Course collection
CourseIds ==
    { Courses[i].id : i \in DOMAIN Courses }

\* the ids of the users with the student role
Students ==
    {1, 2}

\* course.lessons: the ids of the lessons of every course
courseLessons ==
    << {1, 2}, {1}, {}, {} >>

\* the studentIds a caller may pass for the students
StudentIdsOf(students) ==
    [ id : students, objectId : BOOLEAN ]

\* req.user._id of a student
UserIdOf(student) ==
    [ id |-> student, objectId |-> TRUE ]

\* findById / findOne has found nothing (null)
NoDocument ==
    [ student |-> 0, course |-> 0, status |-> "none", percentage |-> 0,
      completionDate |-> "null", completedLessons |-> {} ]

\* findById has found no course (null)
NoCourse ==
    [ found |-> FALSE, status |-> "none", enrollmentCount |-> 0 ]

(* One record per request slot: the operation, its arguments, the           *)
(* documents it has loaded and how it ended.                                *)

IdleRequest ==
    [ pc |-> "idle", op |-> "none",
      studentId |-> [ id |-> 0, objectId |-> FALSE ], course |-> 0,
      enrollment |-> 0, progress |-> 0, lesson |-> 0, doc |-> NoDocument,
      courseDoc |-> NoCourse, outcome |-> "none" ]

Requests ==
    1 .. NumRequests

\* no enrollment, no student with an enrolled course, no request in flight;
\* the courses with the enrollmentCount of the catalog
NoEnrollmentRequest ==
    /\ enrollments = << >>
    /\ enrollmentCount = [ id \in CourseIds |-> CourseById(id).enrollmentCount ]
    /\ enrolledCourses = [ student \in Students |-> << >> ]
    /\ requests = [ r \in Requests |-> IdleRequest ]

-----------------------------------------------------------------------------
(* Invocations.  A slot holds the local state of one invocation of          *)
(* getChatRecommendations or getPersonalizedRecommendations: its arguments, *)
(* the provider reply, where it is suspended, and what it returned.  sent   *)
(* and gateClosed record what happened: whether the invocation sent a       *)
(* provider request, and whether canMakeApiRequest() would have returned    *)
(* false when the invocation was made.  available is the availableCourses   *)
(* local of the invocation: the courses it read before its provider call,   *)
(* by id.  trace and advice belong to the structured-reply pipeline: the    *)
(* provider requests of the invocation and their failures, in order, and    *)
(* what gptService returned.                                                *)

\* gptService has returned nothing yet
NoAdvice ==
    [ success |-> FALSE, recommendations |-> << >>, provider |-> "none",
      fallback |-> FALSE ]

NoResult ==
    [ status |-> "none", courses |-> << >>, aiGenerated |-> FALSE,
      service |-> "none" ]

Thrown ==
    [ status |-> "thrown", courses |-> << >>, aiGenerated |-> FALSE,
      service |-> "none" ]

IdleCall ==
    [ pc |-> "idle", op |-> "none", query |-> << >>, limit |-> 0,
      available |-> << >>, content |-> << >>, sent |-> FALSE,
      gateClosed |-> FALSE, trace |-> << >>, advice |-> NoAdvice,
      result |-> NoResult ]

Init ==
    /\ env \in [ OPENAI_API_KEY : BOOLEAN, GROQ_API_KEY : BOOLEAN ]
    /\ courseStatus = [ id \in { Courses[i].id : i \in DOMAIN Courses } |->
                          CourseById(id).status ]
    /\ apiRequestCount = 0
    /\ requestsInWindow = << >>
    /\ lastServiceUsed = "null"
    /\ now = 0
    /\ calls = [ c \in Calls |-> IdleCall ]
    /\ dispatchLog = << >>
    /\ dispatchedTo = [ openai |-> 0, groq |-> 0 ]
    /\ NoEnrollmentRequest

\* a request leaves for a provider (axios.post, openai.chat.completions.create)
Dispatch(provider, load) ==
    /\ Len(dispatchLog) < load.maxDispatch
    /\ dispatchLog' = Append(dispatchLog, now)
    /\ dispatchedTo' = [ dispatchedTo EXCEPT ![provider] = @ + 1 ]

\* searchCoursesBasic up to its await: new RegExp(query, 'i') throws for a
\* query that is no regular expression, and the rejection reaches the caller
\* of getChatRecommendations (the promise is returned, not awaited); else the
\* invocation waits for Course.find
EnterSearch(call) ==
    IF RegExp(call.query).ok
    THEN [ call EXCEPT !.pc = "awaitSearch" ]
    ELSE [ call EXCEPT !.pc = "done", !.result = Thrown ]

\* getChatRecommendations is invoked: the catalog and the user are read, the
\* prompt is built, and useGroqFallback either returns null (no key) or
\* posts the request to Groq
ChatStart(c, load) ==
    /\ calls[c].pc = "idle"
    /\ \E query \in load.queries, limit \in load.limits :
          LET call == [ IdleCall EXCEPT
                          !.op = "chat", !.query = query, !.limit = limit,
                          !.available = IdsOf(publishedCourses),
                          !.gateClosed =
                              ~canMakeApiRequest(apiRequestCount,
                                                 requestsInWindow, now).allowed ]
          IN  IF env.GROQ_API_KEY
              THEN /\ Dispatch("groq", load)
                   /\ calls' = [ calls EXCEPT ![c] =
                                   [ call EXCEPT !.pc = "awaitGroq", !.sent = TRUE ] ]
              ELSE /\ calls' = [ calls EXCEPT ![c] = EnterSearch(call) ]
                   /\ UNCHANGED <<dispatchLog, dispatchedTo>>
    /\ UNCHANGED <<enrollmentVars, env, courseStatus, apiRequestCount, requestsInWindow, lastServiceUsed, now>>

\* the Groq request fails (network error, timeout, non-2xx): useGroqFallback
\* returns null and getChatRecommendations turns to searchCoursesBasic
GroqFails(c) ==
    /\ calls[c].pc = "awaitGroq"
    /\ calls' = [ calls EXCEPT ![c] = EnterSearch(calls[c]) ]
    /\ UNCHANGED <<enrollmentVars, env, courseStatus, apiRequestCount, requestsInWindow, lastServiceUsed, now,
                   dispatchLog, dispatchedTo>>

\* Groq answers with a payload that has no choices[0].message.content:
\* lastServiceUsed is already set when reading the content throws, and
\* useGroqFallback returns null
GroqMalformed(c) ==
    /\ calls[c].pc = "awaitGroq"
    /\ lastServiceUsed' = "groq"
    /\ calls' = [ calls EXCEPT ![c] = EnterSearch(calls[c]) ]
    /\ UNCHANGED <<enrollmentVars, env, courseStatus, apiRequestCount, requestsInWindow, now, dispatchLog,
                   dispatchedTo>>

\* Groq answers: useGroqFallback sets lastServiceUsed and returns the text;
\* getChatRecommendations resumes at its own await afterwards
GroqReplies(c, load) ==
    /\ calls[c].pc = "awaitGroq"
    /\ \E content \in load.contents :
          calls' = [ calls EXCEPT ![c].pc = "groqReturned", ![c].content = content ]
    /\ lastServiceUsed' = "groq"
    /\ UNCHANGED <<enrollmentVars, env, courseStatus, apiRequestCount, requestsInWindow, now, dispatchLog,
                   dispatchedTo>>

\* the courses a resumed invocation matches the reply against, were they
\* read again after the provider call
availableCoursesReloaded(call) ==
    publishedCourses

\* the availableCourses local of an invocation: the courses it read before
\* its provider call
availableCoursesOf(call) ==
    CoursesOf(call.available)

\* what getChatRecommendations returns on the AI path
chatAiResult(availableCourses, recommendedIndices, service) ==
    [ status |-> "returned",
      courses |-> aiRecords(recommendedIndices, availableCourses,
                            IF service = "null" THEN "unknown" ELSE service),
      aiGenerated |-> TRUE,
      service |-> service ]

\* getChatRecommendations resumes with the reply: it parses the positions
\* and returns the records, labelled with this.lastServiceUsed, or turns to
\* searchCoursesBasic when no position is usable
ChatParse(c) ==
    /\ calls[c].pc = "groqReturned"
    /\ LET recommendedIndices ==
               chatRecommendedIndices(calls[c].content,
                                      availableCoursesOf(calls[c]),
                                      calls[c].limit)
       IN  calls' = [ calls EXCEPT ![c] =
                        IF Len(recommendedIndices) = 0
                        THEN EnterSearch(calls[c])
                        ELSE [ calls[c] EXCEPT
                                 !.pc = "done",
                                 !.result =
                                     chatAiResult(availableCoursesOf(calls[c]),
                                                  recommendedIndices,
                                                  lastServiceUsed) ] ]
    /\ UNCHANGED <<enrollmentVars, env, courseStatus, apiRequestCount, requestsInWindow, lastServiceUsed, now,
                   dispatchLog, dispatchedTo>>

\* what searchCoursesBasic returns for the courses the database found
searchResult(ids, query, limit) ==
    [ status |-> "returned",
      courses |-> FallbackRecords(ids, query, limit),
      aiGenerated |-> FALSE,
      service |-> "db-search" ]

\* Course.find of searchCoursesBasic resolves: lastServiceUsed is set and the
\* search result returned
SearchReturns(c) ==
    /\ calls[c].pc = "awaitSearch"
    /\ \E ids \in SearchResults(RegExp(calls[c].query).atoms, calls[c].limit) :
          calls' = [ calls EXCEPT
                       ![c].pc = "done",
                       ![c].result = searchResult(ids, calls[c].query,
                                                  calls[c].limit) ]
    /\ lastServiceUsed' = "db-search"
    /\ UNCHANGED <<enrollmentVars, env, courseStatus, apiRequestCount, requestsInWindow, now, dispatchLog,
                   dispatchedTo>>

\* the caller has taken the result: the slot is free for the next invocation
Finish(c) ==
    /\ calls[c].pc = "done"
    /\ calls' = [ calls EXCEPT ![c] = IdleCall ]
    /\ UNCHANGED <<enrollmentVars, env, courseStatus, apiRequestCount, requestsInWindow, lastServiceUsed, now,
                   dispatchLog, dispatchedTo>>

-----------------------------------------------------------------------------
(* getPersonalizedRecommendations and generateAIRecommendations.            *)

\* availableCourses.slice(0, 20) of the published courses the user is not
\* enrolled in (the user of the model has no enrollment)
limitedCourses(availableCourses) ==
    sliceFirst(availableCourses, promptExcerptLimit)

basicResult(availableCourses, limit) ==
    [ status |-> "returned",
      courses |-> generateBasicRecommendations(availableCourses, limit),
      aiGenerated |-> FALSE,
      service |-> "basic" ]

\* what generateAIRecommendations returns for a reply (aiGenerated and
\* service record the path; the source returns the records alone)
personalizedResult(availableCourses, content, limit) ==
    LET recommendedIndices ==
            aiRecommendedIndices(content, limitedCourses(availableCourses), limit)
    IN  IF Len(recommendedIndices) = 0
        THEN basicResult(availableCourses, limit)
        ELSE [ status |-> "returned",
               courses |-> aiRecords(recommendedIndices,
                                     limitedCourses(availableCourses), "openai"),
               aiGenerated |-> TRUE,
               service |-> "openai" ]

\* getPersonalizedRecommendations is invoked: user, profile and courses are
\* read, then generateAIRecommendations runs up to its await: without a key
\* or with the gate closed it returns the basic recommendations; else it
\* tracks the request and sends it to OpenAI
PersonalizedStart(c, load) ==
    /\ calls[c].pc = "idle"
    /\ \E limit \in load.limits :
          LET gate == canMakeApiRequest(apiRequestCount, requestsInWindow, now)
              tracked == trackApiRequest(apiRequestCount, gate.requestsInWindow, now)
              call == [ IdleCall EXCEPT !.op = "personalized", !.limit = limit,
                                        !.available = IdsOf(publishedCourses),
                                        !.gateClosed = ~gate.allowed ]
          IN  IF ~env.OPENAI_API_KEY
              THEN /\ calls' = [ calls EXCEPT ![c] =
                                   [ call EXCEPT
                                       !.pc = "done",
                                       !.result = basicResult(publishedCourses,
                                                              limit) ] ]
                   /\ UNCHANGED <<apiRequestCount, requestsInWindow, dispatchLog,
                                  dispatchedTo>>
              ELSE IF ~gate.allowed
              THEN /\ requestsInWindow' = gate.requestsInWindow
                   /\ calls' = [ calls EXCEPT ![c] =
                                   [ call EXCEPT
                                       !.pc = "done",
                                       !.result = basicResult(publishedCourses,
                                                              limit) ] ]
                   /\ UNCHANGED <<apiRequestCount, dispatchLog, dispatchedTo>>
              ELSE /\ apiRequestCount' = tracked.apiRequestCount
                   /\ requestsInWindow' = tracked.requestsInWindow
                   /\ Dispatch("openai", load)
                   /\ calls' = [ calls EXCEPT ![c] =
                                   [ call EXCEPT !.pc = "awaitOpenAI",
                                                 !.sent = TRUE ] ]
    /\ UNCHANGED <<enrollmentVars, env, courseStatus, lastServiceUsed, now>>

\* the OpenAI request fails, or its payload has no content: the catch block
\* returns the basic recommendations
OpenAIFails(c) ==
    /\ calls[c].pc = "awaitOpenAI"
    /\ calls' = [ calls EXCEPT ![c].pc = "done",
                               ![c].result =
                                   basicResult(availableCoursesOf(calls[c]),
                                               calls[c].limit) ]
    /\ UNCHANGED <<enrollmentVars, env, courseStatus, apiRequestCount, requestsInWindow, lastServiceUsed, now,
                   dispatchLog, dispatchedTo>>

\* OpenAI answers: the positions are parsed and the records returned
OpenAIReplies(c, load) ==
    /\ calls[c].pc = "awaitOpenAI"
    /\ \E content \in load.contents :
          calls' = [ calls EXCEPT
                       ![c].pc = "done",
                       ![c].content = content,
                       ![c].result =
                           personalizedResult(availableCoursesOf(calls[c]),
                                              content, calls[c].limit) ]
    /\ UNCHANGED <<enrollmentVars, env, courseStatus, apiRequestCount, requestsInWindow, lastServiceUsed, now,
                   dispatchLog, dispatchedTo>>

\* time passes
Tick ==
    /\ now < MaxTicks * rateLimitWindow
    /\ now' = now + rateLimitWindow
    /\ UNCHANGED <<enrollmentVars, env, courseStatus, apiRequestCount, requestsInWindow, lastServiceUsed, calls,
                   dispatchLog, dispatchedTo>>

-----------------------------------------------------------------------------
(* The service under concurrent invocations.                                *)

Next ==
    \/ \E c \in Calls :
          \/ ChatStart(c, ConcurrentLoad)
          \/ GroqFails(c)
          \/ GroqMalformed(c)
          \/ GroqReplies(c, ConcurrentLoad)
          \/ ChatParse(c)
          \/ SearchReturns(c)
          \/ PersonalizedStart(c, ConcurrentLoad)
          \/ OpenAIFails(c)
          \/ OpenAIReplies(c, ConcurrentLoad)
          \/ Finish(c)
    \/ Tick

Spec ==
    Init /\ [][Next]_vars

(* One invocation after the other, long enough to fill the rate-limit       *)
(* window of the usage tracker.                                             *)

NextUsage ==
    \/ ChatStart(1, UsageLoad)
    \/ GroqFails(1)
    \/ GroqMalformed(1)
    \/ GroqReplies(1, UsageLoad)
    \/ ChatParse(1)
    \/ SearchReturns(1)
    \/ PersonalizedStart(1, UsageLoad)
    \/ OpenAIFails(1)
    \/ OpenAIReplies(1, UsageLoad)
    \/ Finish(1)
    \/ Tick

SpecUsage ==
    Init /\ [][NextUsage]_vars

(* One chat invocation after the other, over every query, limit and reply.  *)

NextChat ==
    \/ ChatStart(1, ChatLoad)
    \/ GroqFails(1)
    \/ GroqMalformed(1)
    \/ GroqReplies(1, ChatLoad)
    \/ ChatParse(1)
    \/ SearchReturns(1)
    \/ Finish(1)

SpecChat ==
    Init /\ [][NextChat]_vars

-----------------------------------------------------------------------------
(* The structured-reply pipeline: RecommendationController                  *)
(* .getCourseRecommendations reads a page of published courses, asks        *)
(* gptService.getCourseRecommendations for hints and matches the hints with *)
(* the courses it read.  gptService asks OpenAI, then Groq, and falls back  *)
(* to getFallbackRecommendations.  A hint is what JSON.parse gives for one  *)
(* element of the reply: courseId and title as text (empty where absent)    *)
(* and a priority; objectId marks a courseId that is an ObjectId, not a     *)
(* string, as in the hints of getFallbackRecommendations.                   *)

\* PAGINATION.DEFAULT_LIMIT
DEFAULT_LIMIT == 10

\* String.prototype.includes
includes(text, part) ==
    \E i \in 0 .. Len(text) - Len(part) :
        SubSeq(text, i + 1, i + Len(part)) = part

\* Array.prototype.find, given the indices of the elements that pass: the
\* first of them, 0 when there is none
FirstIndex(passing) ==
    IF passing = { } THEN 0
    ELSE CHOOSE i \in passing : \A j \in passing : i <= j

\* Array.prototype.reverse
Reverse(s) ==
    [ i \in 1 .. Len(s) |-> s[Len(s) + 1 - i] ]

\* c._id.toString()
ObjectIdString(id) ==
    <<"o", "i", "d", DigitChars[id + 1]>>

\* courseService.getAllCourses({ status: 'published' }).courses: the first
\* page of the published courses, newest first (sort createdAt desc; the
\* catalog is in creation order)
getAllCourses ==
    sliceFirst(Reverse(SelectSeq(Courses,
                                 LAMBDA c : courseStatus[c.id] = "published")),
               DEFAULT_LIMIT)

\* the keywords table of getFallbackRecommendations
keywords ==
    <<
      [ career |->
            <<"s", "o", "f", "t", "w", "a", "r", "e", " ", "e", "n", "g",
            "i", "n", "e", "e", "r">>,
        skills |->
            << <<"p", "r", "o", "g", "r", "a", "m", "m", "i", "n", "g">>,
               <<"j", "a", "v", "a", "s", "c", "r", "i", "p", "t">>,
               <<"p", "y", "t", "h", "o", "n">>,
               <<"w", "e", "b", " ", "d", "e", "v", "e", "l", "o", "p", "m",
               "e", "n", "t">> >> ],
      [ career |->
            <<"w", "e", "b", " ", "d", "e", "v", "e", "l", "o", "p", "e",
            "r">>,
        skills |->
            << <<"h", "t", "m", "l">>,
               <<"c", "s", "s">>,
               <<"j", "a", "v", "a", "s", "c", "r", "i", "p", "t">>,
               <<"r", "e", "a", "c", "t">>,
               <<"n", "o", "d", "e">> >> ],
      [ career |->
            <<"d", "a", "t", "a", " ", "s", "c", "i", "e", "n", "t", "i",
            "s", "t">>,
        skills |->
            << <<"p", "y", "t", "h", "o", "n">>,
               <<"s", "t", "a", "t", "i", "s", "t", "i", "c", "s">>,
               <<"m", "a", "c", "h", "i", "n", "e", " ", "l", "e", "a", "r",
               "n", "i", "n", "g">>,
               <<"d", "a", "t", "a", " ", "a", "n", "a", "l", "y", "s", "i",
               "s">> >> ],
      [ career |->
            <<"m", "o", "b", "i", "l", "e", " ", "d", "e", "v", "e", "l",
            "o", "p", "e", "r">>,
        skills |->
            << <<"r", "e", "a", "c", "t", " ", "n", "a", "t", "i", "v",
               "e">>,
               <<"f", "l", "u", "t", "t", "e", "r">>,
               <<"i", "o", "s">>,
               <<"a", "n", "d", "r", "o", "i", "d">> >> ],
      [ career |->
            <<"d", "e", "s", "i", "g", "n", "e", "r">>,
        skills |->
            << <<"u", "i">>,
               <<"u", "x">>,
               <<"d", "e", "s", "i", "g", "n">>,
               <<"p", "h", "o", "t", "o", "s", "h", "o", "p">>,
               <<"f", "i", "g", "m", "a">> >> ]
    >>

\* `${course.title} ${course.description} ${course.category}`.toLowerCase()
fallbackCourseText(course) ==
    toLowerCase(joinWithSpace(<<course.title, course.description,
                                course.category>>))

\* getFallbackRecommendations: the courses matching a skill of the first
\* career the prompt names; courseId is course._id, an ObjectId
getFallbackRecommendations(userPrompt, availableCourses) ==
    LET prompt == toLowerCase(userPrompt)
        k == FirstIndex({ i \in DOMAIN keywords :
                            includes(prompt, keywords[i].career) })
        matching ==
            IF k = 0 THEN << >>
            ELSE SelectSeq(availableCourses,
                           LAMBDA course :
                               \E i \in DOMAIN keywords[k].skills :
                                   includes(fallbackCourseText(course),
                                            keywords[k].skills[i]))
    IN  [ i \in 1 .. Len(matching) |->
            [ courseId |-> ObjectIdString(matching[i].id),
              objectId |-> TRUE,
              title |-> matching[i].title,
              priority |-> "medium" ] ]

\* what gptService.getCourseRecommendations returns from its catch block
fallbackAdvice(userPrompt, availableCourses) ==
    [ success |-> FALSE,
      recommendations |-> getFallbackRecommendations(userPrompt, availableCourses),
      provider |-> "none",
      fallback |-> TRUE ]

\* what getOpenAIRecommendations / getGroqRecommendations return for a
\* reply: the parsed hints, or no hint when the reply is no JSON
providerAdvice(reply, provider) ==
    [ success |-> TRUE,
      recommendations |-> IF reply.json THEN reply.hints ELSE << >>,
      provider |-> provider,
      fallback |-> FALSE ]

\* a provider asked again after its own failure
providerAfterRetry(provider, keys) ==
    provider

\* the provider getCourseRecommendations asks after a failure of provider
\* ("none": it gives up and falls back)
providerAfter(provider, keys) ==
    IF provider = "openai" /\ keys.GROQ_API_KEY THEN "groq" ELSE "none"

\* the provider getCourseRecommendations asks first
firstProvider(keys) ==
    IF keys.OPENAI_API_KEY THEN "openai"
    ELSE IF keys.GROQ_API_KEY THEN "groq"
    ELSE "none"

\* the course a hint resolves to (0: none): by id, then by the courseId read
\* as a title, then by a title containing or contained in the hint's title.
\* An ObjectId equals no string, and rec.courseId.toLowerCase() throws for
\* it as soon as a course is compared
matchRecommendation(rec, availableCourses) ==
    LET hasCourseId == rec.objectId \/ rec.courseId # << >>
        byId ==
            IF hasCourseId /\ ~rec.objectId
            THEN FirstIndex({ i \in DOMAIN availableCourses :
                                ObjectIdString(availableCourses[i].id)
                                  = rec.courseId })
            ELSE 0
        byExactTitle ==
            IF byId = 0 /\ hasCourseId
            THEN FirstIndex({ i \in DOMAIN availableCourses :
                                toLowerCase(availableCourses[i].title)
                                  = toLowerCase(rec.courseId) })
            ELSE byId
        searchTitle == IF rec.title # << >> THEN rec.title ELSE rec.courseId
        byPartialTitle ==
            IF byExactTitle = 0 /\ (rec.title # << >> \/ hasCourseId)
            THEN FirstIndex({ i \in DOMAIN availableCourses :
                                \/ includes(toLowerCase(availableCourses[i].title),
                                            toLowerCase(searchTitle))
                                \/ includes(toLowerCase(searchTitle),
                                            toLowerCase(availableCourses[i].title)) })
            ELSE byExactTitle
    IN  IF rec.objectId /\ Len(availableCourses) > 0
        THEN [ thrown |-> TRUE, course |-> 0 ]
        ELSE [ thrown |-> FALSE,
               course |-> IF byPartialTitle = 0 THEN 0
                          ELSE availableCourses[byPartialTitle].id ]

\* recommendationScore of a matched course: 0.9, 0.7 or 0.5
priorityScore(priority) ==
    [ num |-> IF priority = "high" THEN 9
              ELSE IF priority = "medium" THEN 7 ELSE 5,
      den |-> 10 ]

\* the response of getCourseRecommendations for the hints of gptService: the
\* matched courses in hint order, or the error response of the catch block
courseRecommendationsResponse(advice, availableCourses) ==
    LET recs == advice.recommendations
        matches == [ i \in 1 .. Len(recs) |->
                       matchRecommendation(recs[i], availableCourses) ]
        matched == SelectSeq([ i \in 1 .. Len(recs) |-> i ],
                             LAMBDA i : matches[i].course # 0)
    IN  IF \E i \in 1 .. Len(recs) : matches[i].thrown
        THEN Thrown
        ELSE [ status |-> "returned",
               courses |->
                   [ k \in 1 .. Len(matched) |->
                       [ id |-> matches[matched[k]].course,
                         recommendationScore |->
                             priorityScore(recs[matched[k]].priority),
                         relevanceScore |-> -1,
                         recommendationService |-> advice.provider ] ],
               aiGenerated |-> ~advice.fallback,
               service |-> advice.provider ]

(* Prompts a caller sends and hints a provider gives.                       *)

PromptDataScientist ==
    <<"I", " ", "w", "a", "n", "t", " ", "t", "o", " ", "b", "e", " ", "a",
    " ", "D", "a", "t", "a", " ", "S", "c", "i", "e", "n", "t", "i", "s",
    "t">>

PromptCooking ==
    <<"l", "e", "a", "r", "n", " ", "c", "o", "o", "k", "i", "n", "g">>

TitlePythonDataAnalysisLower ==
    <<"p", "y", "t", "h", "o", "n", " ", "d", "a", "t", "a", " ", "a", "n",
    "a", "l", "y", "s", "i", "s">>

TitleCookingUpper ==
    <<"C", "O", "O", "K", "I", "N", "G", " ", "B", "A", "S", "I", "C", "S">>

TitleQuantum ==
    <<"Q", "u", "a", "n", "t", "u", "m", " ", "P", "h", "y", "s", "i", "c",
    "s">>

\* a hint naming course 2 by its id
HintById ==
    [ courseId |-> ObjectIdString(2), objectId |-> FALSE,
      title |-> Course2.title, priority |-> "high" ]

\* a hint naming course 2 by its title alone, in lower case
HintByTitle ==
    [ courseId |-> << >>, objectId |-> FALSE,
      title |-> TitlePythonDataAnalysisLower, priority |-> "medium" ]

\* a hint carrying the title of course 3 as its courseId, in upper case
HintTitleAsId ==
    [ courseId |-> TitleCookingUpper, objectId |-> FALSE,
      title |-> << >>, priority |-> "low" ]

\* a hint naming no course of the catalog
HintUnknown ==
    [ courseId |-> << >>, objectId |-> FALSE,
      title |-> TitleQuantum, priority |-> "high" ]

Prompts ==
    {PromptDataScientist, PromptCooking}

\* the replies of a provider: a JSON array of hints, or plain text
Replies ==
    { [ json |-> TRUE, hints |-> <<HintById, HintTitleAsId>> ],
      [ json |-> TRUE, hints |-> <<HintByTitle>> ],
      [ json |-> TRUE, hints |-> <<HintUnknown>> ],
      [ json |-> FALSE, hints |-> << >> ] }

AdviceLoad ==
    [ prompts |-> Prompts, replies |-> Replies,
      maxDispatch |-> MaxDispatchShort ]

\* gptService asks a provider, or falls back when there is none left to ask
AskOrFallBack(c, call, provider, load) ==
    IF provider = "none"
    THEN /\ calls' = [ calls EXCEPT ![c] =
                         [ call EXCEPT
                             !.pc = "adviceReturned",
                             !.advice = fallbackAdvice(call.query,
                                                       availableCoursesOf(call)) ] ]
         /\ UNCHANGED <<dispatchLog, dispatchedTo>>
    ELSE /\ Dispatch(provider, load)
         /\ calls' = [ calls EXCEPT ![c] =
                         [ call EXCEPT
                             !.pc = "awaitAdvice",
                             !.sent = TRUE,
                             !.trace = Append(@, [ event |-> "request",
                                                   provider |-> provider ]) ] ]

\* the provider an invocation is waiting for
AskedProvider(call) ==
    call.trace[Len(call.trace)].provider

\* getCourseRecommendations of the controller is invoked with a valid prompt:
\* it reads the courses and gptService.getCourseRecommendations asks its
\* first provider
CourseRecommendationsStart(c, load) ==
    /\ calls[c].pc = "idle"
    /\ \E prompt \in load.prompts :
          AskOrFallBack(c,
                        [ IdleCall EXCEPT !.op = "courseRecommendations",
                                          !.query = prompt,
                                          !.available = IdsOf(getAllCourses) ],
                        firstProvider(env), load)
    /\ UNCHANGED <<enrollmentVars, env, courseStatus, apiRequestCount, requestsInWindow,
                   lastServiceUsed, now>>

\* the request to the provider fails (network error, non-2xx, a payload
\* without choices[0].message.content): the next provider is asked, or the
\* catch block falls back
AdviceRequestFails(c, load) ==
    /\ calls[c].pc = "awaitAdvice"
    /\ AskOrFallBack(c,
                     [ calls[c] EXCEPT
                         !.trace = Append(@, [ event |-> "failure",
                                               provider |-> AskedProvider(calls[c]) ]) ],
                     providerAfter(AskedProvider(calls[c]), env), load)
    /\ UNCHANGED <<enrollmentVars, env, courseStatus, apiRequestCount, requestsInWindow,
                   lastServiceUsed, now>>

\* the provider answers: its reply is parsed into hints
AdviceReplies(c, load) ==
    /\ calls[c].pc = "awaitAdvice"
    /\ \E reply \in load.replies :
          calls' = [ calls EXCEPT
                       ![c].pc = "adviceReturned",
                       ![c].advice = providerAdvice(reply,
                                                    AskedProvider(calls[c])) ]
    /\ UNCHANGED <<enrollmentVars, env, courseStatus, apiRequestCount, requestsInWindow,
                   lastServiceUsed, now, dispatchLog, dispatchedTo>>

\* the controller resumes with the hints and matches them with the courses
\* it read
CourseRecommendationsRespond(c) ==
    /\ calls[c].pc = "adviceReturned"
    /\ calls' = [ calls EXCEPT
                    ![c].pc = "done",
                    ![c].result =
                        courseRecommendationsResponse(calls[c].advice,
                                                      availableCoursesOf(calls[c])) ]
    /\ UNCHANGED <<enrollmentVars, env, courseStatus, apiRequestCount, requestsInWindow,
                   lastServiceUsed, now, dispatchLog, dispatchedTo>>

\* courseService.publishCourse: the status of a course is toggled
publishCourse(id) ==
    /\ courseStatus' = [ courseStatus EXCEPT
                           ![id] = IF @ = "published" THEN "draft"
                                   ELSE "published" ]
    /\ UNCHANGED <<enrollmentVars, env, apiRequestCount, requestsInWindow, lastServiceUsed, now,
                   calls, dispatchLog, dispatchedTo>>

(* One structured-reply invocation after the other, while courses are       *)
(* published and withdrawn.                                                 *)

NextAdvice ==
    \/ CourseRecommendationsStart(1, AdviceLoad)
    \/ AdviceRequestFails(1, AdviceLoad)
    \/ AdviceReplies(1, AdviceLoad)
    \/ CourseRecommendationsRespond(1)
    \/ Finish(1)
    \/ \E id \in DOMAIN courseStatus : publishCourse(id)

SpecAdvice ==
    Init /\ [][NextAdvice]_vars

(* The usage tracker near its total ceiling, under concurrent               *)
(* getPersonalizedRecommendations invocations: the service is observed      *)
(* after maxApiRequests - CeilingMargin tracked requests, the latest of     *)
(* them sent just now.  dispatchLog holds the requests of the current       *)
(* window.                                                                  *)

RecentRequests ==
    { [ i \in 1 .. k |-> 0 ] :
        k \in maxRequestsPerMinute - WindowMargin .. maxRequestsPerMinute - 1 }

InitNearCeiling ==
    /\ env \in [ OPENAI_API_KEY : BOOLEAN, GROQ_API_KEY : BOOLEAN ]
    /\ courseStatus = [ id \in { Courses[i].id : i \in DOMAIN Courses } |->
                          CourseById(id).status ]
    /\ apiRequestCount = maxApiRequests - CeilingMargin
    /\ requestsInWindow \in RecentRequests
    /\ lastServiceUsed = "null"
    /\ now = 0
    /\ calls = [ c \in Calls |-> IdleCall ]
    /\ dispatchLog = requestsInWindow
    /\ dispatchedTo = [ openai |-> apiRequestCount, groq |-> 0 ]
    /\ NoEnrollmentRequest

NextCeiling ==
    \/ \E c \in Calls :
          \/ PersonalizedStart(c, UsageLoad)
          \/ OpenAIFails(c)
          \/ OpenAIReplies(c, UsageLoad)
          \/ Finish(c)
    \/ Tick

SpecCeiling ==
    InitNearCeiling /\ [][NextCeiling]_vars

(* One chat or personalized invocation after the other, while courses are   *)
(* published and withdrawn.                                                 *)

NextCatalog ==
    \/ ChatStart(1, CatalogLoad)
    \/ GroqFails(1)
    \/ GroqMalformed(1)
    \/ GroqReplies(1, CatalogLoad)
    \/ ChatParse(1)
    \/ SearchReturns(1)
    \/ PersonalizedStart(1, CatalogLoad)
    \/ OpenAIFails(1)
    \/ OpenAIReplies(1, CatalogLoad)
    \/ Finish(1)
    \/ \E id \in DOMAIN courseStatus : publishCourse(id)

SpecCatalog ==
    Init /\ [][NextCatalog]_vars

-----------------------------------------------------------------------------
(* The operations on enrollments.                                           *)

\* new Enrollment({ student, course, ... }): the defaults of the schema
newEnrollment(student, course) ==
    [ student |-> student, course |-> course,
      status |-> ENROLLMENT_STATUS.ACTIVE, percentage |-> 0,
      completionDate |-> "null", completedLessons |-> {} ]

\* the validators of progress.percentage (min 0, max 100)
validates(doc) ==
    doc.percentage >= 0 /\ doc.percentage <= 100

\* the hook that keeps whatever status the document has
preSaveKeepingStatus(doc) ==
    doc

\* enrollmentSchema.pre('save'): the document as the hook leaves it
preSave(doc) ==
    IF doc.percentage = 100 /\ doc.status # ENROLLMENT_STATUS.COMPLETED
    THEN [ doc EXCEPT !.status = ENROLLMENT_STATUS.COMPLETED,
                      !.completionDate = "date" ]
    ELSE IF doc.percentage > 0 /\ doc.status = ENROLLMENT_STATUS.PENDING
    THEN [ doc EXCEPT !.status = ENROLLMENT_STATUS.ACTIVE ]
    ELSE doc

\* the stored document after save() of a loaded document: the paths that
\* were modified since it was loaded are written, the others are left as
\* they are stored
savedOver(stored, loaded, modified) ==
    [ path \in DOMAIN stored |->
        IF modified[path] # loaded[path] THEN modified[path] ELSE stored[path] ]

\* Enrollment.findOne({ student, course }): the id of the enrollment (0: none)
findOne(student, course) ==
    FirstIndex({ e \in DOMAIN enrollments :
                   /\ enrollments[e].student = student
                   /\ enrollments[e].course = course })

\* Enrollment.findById(id)
findById(id) ==
    IF id \in DOMAIN enrollments THEN enrollments[id] ELSE NoDocument

\* the unique index { student: 1, course: 1 } refuses the document
duplicateKey(doc) ==
    findOne(doc.student, doc.course) # 0

\* enrollment.student.toString() !== studentId: a string is never
\* identical to an ObjectId
forbidden(enrollment, studentId) ==
    studentId.objectId \/ enrollment.student # studentId.id

\* cancelEnrollment refuses the enrollment
cannotCancel(enrollment) ==
    enrollment.status = ENROLLMENT_STATUS.COMPLETED

\* Math.round((completedLessons / totalLessons) * 100), totalLessons > 0
roundedPercentage(completedLessons, totalLessons) ==
    (200 * completedLessons + totalLessons) \div (2 * totalLessons)

\* $pull: { enrolledCourses: course }
pull(courses, course) ==
    SelectSeq(courses, LAMBDA c : c # course)

\* the operation of the slot ends: it returns, or throws the message
Ends(r, outcome) ==
    requests' = [ requests EXCEPT ![r].pc = "done", ![r].outcome = outcome ]

\* Course.findById(courseId) as it is stored now
CourseFound(course) ==
    IF course \in CourseIds
    THEN [ found |-> TRUE, status |-> courseStatus[course],
           enrollmentCount |-> enrollmentCount[course] ]
    ELSE NoCourse

\* a courseId that is no course's id
UnknownCourse ==
    Cardinality(CourseIds) + 1

\* enrollInCourse(studentId, courseId): Course.findById
EnrollInCourseStart(r, load) ==
    /\ requests[r].pc = "idle"
    /\ \E studentId \in load.enrollIds, course \in load.courses :
          requests' = [ requests EXCEPT ![r] =
                          [ IdleRequest EXCEPT
                              !.pc = "courseLoaded",
                              !.op = "enrollInCourse",
                              !.studentId = studentId,
                              !.course = course,
                              !.courseDoc = CourseFound(course) ] ]
    /\ UNCHANGED <<recommendationVars, enrollments, enrollmentCount,
                   enrolledCourses>>

\* the checks on the course (course.maxStudents is no path of the schema:
\* the limit is never reached), then Enrollment.findOne
EnrollInCourseFindExisting(r) ==
    /\ requests[r].pc = "courseLoaded"
    /\ requests[r].op = "enrollInCourse"
    /\ IF ~requests[r].courseDoc.found
       THEN Ends(r, ERROR.COURSE_NOT_FOUND)
       ELSE IF requests[r].courseDoc.status # "published"
       THEN Ends(r, ERROR.NOT_AVAILABLE)
       ELSE requests' = [ requests EXCEPT
                            ![r].pc = "existingLoaded",
                            ![r].enrollment =
                                findOne(requests[r].studentId.id,
                                        requests[r].course) ]
    /\ UNCHANGED <<recommendationVars, enrollments, enrollmentCount,
                   enrolledCourses>>

\* the check on the existing enrollment, then enrollment.save() of the new
\* document
EnrollInCourseSave(r) ==
    /\ requests[r].pc = "existingLoaded"
    /\ LET enrollment == preSave(newEnrollment(requests[r].studentId.id,
                                               requests[r].course))
       IN  IF requests[r].enrollment # 0
           THEN /\ Ends(r, ERROR.ALREADY_ENROLLED)
                /\ UNCHANGED enrollments
           ELSE IF duplicateKey(enrollment)
           THEN /\ Ends(r, ERROR.DUPLICATE_KEY)
                /\ UNCHANGED enrollments
           ELSE /\ enrollments' = Append(enrollments, enrollment)
                /\ requests' = [ requests EXCEPT
                                   ![r].pc = "enrollmentSaved",
                                   ![r].enrollment = Len(enrollments) + 1,
                                   ![r].doc = enrollment ]
    /\ UNCHANGED <<recommendationVars, enrollmentCount, enrolledCourses>>

\* course.enrollmentCount += 1; course.save(): the count of the course
\* document loaded at the start, plus one, is written
EnrollInCourseCount(r) ==
    /\ requests[r].pc = "enrollmentSaved"
    /\ enrollmentCount' =
           [ enrollmentCount EXCEPT
               ![requests[r].course] = requests[r].courseDoc.enrollmentCount + 1 ]
    /\ requests' = [ requests EXCEPT ![r].pc = "courseSaved" ]
    /\ UNCHANGED <<recommendationVars, enrollments, enrolledCourses>>

\* User.findByIdAndUpdate(studentId, { $push: { enrolledCourses } }), and
\* the enrollment is returned
EnrollInCoursePush(r) ==
    /\ requests[r].pc = "courseSaved"
    /\ enrolledCourses' =
           [ enrolledCourses EXCEPT
               ![requests[r].studentId.id] = Append(@, requests[r].course) ]
    /\ Ends(r, "returned")
    /\ UNCHANGED <<recommendationVars, enrollments, enrollmentCount>>

\* updateProgress(enrollmentId, studentId, { progress }): Enrollment.findById
UpdateProgressStart(r, load) ==
    /\ requests[r].pc = "idle"
    /\ \E id \in 1 .. Len(enrollments) + 1, studentId \in load.studentIds,
          progress \in load.progress :
          requests' = [ requests EXCEPT ![r] =
                          [ IdleRequest EXCEPT
                              !.pc = "enrollmentLoaded",
                              !.op = "updateProgress",
                              !.studentId = studentId,
                              !.enrollment = id,
                              !.progress = progress,
                              !.doc = findById(id) ] ]
    /\ UNCHANGED <<recommendationVars, enrollments, enrollmentCount,
                   enrolledCourses>>

\* the checks, progress.percentage = Math.min(100, Math.max(0, progress)),
\* then enrollment.save()
UpdateProgressSave(r) ==
    /\ requests[r].pc = "enrollmentLoaded"
    /\ requests[r].op = "updateProgress"
    /\ LET enrollment == requests[r].doc
           modified ==
               preSave([ enrollment EXCEPT
                           !.percentage = Min(100, IF requests[r].progress > 0
                                                   THEN requests[r].progress
                                                   ELSE 0) ])
       IN  IF enrollment = NoDocument
           THEN /\ Ends(r, ERROR.ENROLLMENT_NOT_FOUND)
                /\ UNCHANGED enrollments
           ELSE IF forbidden(enrollment, requests[r].studentId)
           THEN /\ Ends(r, ERROR.FORBIDDEN)
                /\ UNCHANGED enrollments
           ELSE /\ enrollments' =
                       [ enrollments EXCEPT
                           ![requests[r].enrollment] =
                               savedOver(@, enrollment, modified) ]
                /\ Ends(r, "returned")
    /\ UNCHANGED <<recommendationVars, enrollmentCount, enrolledCourses>>

\* completeLesson(enrollmentId, studentId, lessonId):
\* Enrollment.findById(...).populate('course', 'lessons')
CompleteLessonStart(r, load) ==
    /\ requests[r].pc = "idle"
    /\ \E id \in 1 .. Len(enrollments) + 1, studentId \in load.studentIds,
          lesson \in load.lessons :
          requests' = [ requests EXCEPT ![r] =
                          [ IdleRequest EXCEPT
                              !.pc = "enrollmentLoaded",
                              !.op = "completeLesson",
                              !.studentId = studentId,
                              !.enrollment = id,
                              !.lesson = lesson,
                              !.doc = findById(id) ] ]
    /\ UNCHANGED <<recommendationVars, enrollments, enrollmentCount,
                   enrolledCourses>>

\* the checks, enrollment.completeLesson(lessonId), the percentage of the
\* completed lessons, then enrollment.save().  With no lesson in the course
\* the percentage is Infinity, and above 100 with a lesson that is not the
\* course's: the validator of the schema rejects the document
CompleteLessonSave(r) ==
    /\ requests[r].pc = "enrollmentLoaded"
    /\ requests[r].op = "completeLesson"
    /\ LET enrollment == requests[r].doc
           completedLessons == enrollment.completedLessons \cup {requests[r].lesson}
           totalLessons == Cardinality(courseLessons[enrollment.course])
           percentage == IF totalLessons = 0 THEN 0
                         ELSE roundedPercentage(Cardinality(completedLessons),
                                                totalLessons)
           changed == [ enrollment EXCEPT !.completedLessons = completedLessons,
                                          !.percentage = percentage ]
       IN  IF enrollment = NoDocument
           THEN /\ Ends(r, ERROR.ENROLLMENT_NOT_FOUND)
                /\ UNCHANGED enrollments
           ELSE IF forbidden(enrollment, requests[r].studentId)
           THEN /\ Ends(r, ERROR.FORBIDDEN)
                /\ UNCHANGED enrollments
           ELSE IF totalLessons = 0 \/ ~validates(changed)
           THEN /\ Ends(r, ERROR.VALIDATION)
                /\ UNCHANGED enrollments
           ELSE /\ enrollments' =
                       [ enrollments EXCEPT
                           ![requests[r].enrollment] =
                               savedOver(@, enrollment, preSave(changed)) ]
                /\ Ends(r, "returned")
    /\ UNCHANGED <<recommendationVars, enrollmentCount, enrolledCourses>>

\* cancelEnrollment(enrollmentId, studentId): Enrollment.findById.  (The
\* model stops cancelling once the count of a course has drifted
\* MaxCountDrift below zero.)
CancelEnrollmentStart(r, load) ==
    /\ requests[r].pc = "idle"
    /\ \E id \in 1 .. Len(enrollments) + 1, studentId \in load.studentIds :
          /\ id \in DOMAIN enrollments
                => enrollmentCount[enrollments[id].course] > - MaxCountDrift
          /\ requests' = [ requests EXCEPT ![r] =
                             [ IdleRequest EXCEPT
                                 !.pc = "enrollmentLoaded",
                                 !.op = "cancelEnrollment",
                                 !.studentId = studentId,
                                 !.enrollment = id,
                                 !.doc = findById(id) ] ]
    /\ UNCHANGED <<recommendationVars, enrollments, enrollmentCount,
                   enrolledCourses>>

\* the checks, enrollment.status = DROPPED, then enrollment.save()
CancelEnrollmentSave(r) ==
    /\ requests[r].pc = "enrollmentLoaded"
    /\ requests[r].op = "cancelEnrollment"
    /\ LET enrollment == requests[r].doc
           modified == preSave([ enrollment EXCEPT
                                   !.status = ENROLLMENT_STATUS.DROPPED ])
       IN  IF enrollment = NoDocument
           THEN /\ Ends(r, ERROR.ENROLLMENT_NOT_FOUND)
                /\ UNCHANGED enrollments
           ELSE IF forbidden(enrollment, requests[r].studentId)
           THEN /\ Ends(r, ERROR.FORBIDDEN)
                /\ UNCHANGED enrollments
           ELSE IF cannotCancel(enrollment)
           THEN /\ Ends(r, ERROR.CANNOT_CANCEL)
                /\ UNCHANGED enrollments
           ELSE /\ enrollments' =
                       [ enrollments EXCEPT
                           ![requests[r].enrollment] =
                               savedOver(@, enrollment, modified) ]
                /\ requests' = [ requests EXCEPT ![r].pc = "cancelSaved" ]
    /\ UNCHANGED <<recommendationVars, enrollmentCount, enrolledCourses>>

\* Course.findByIdAndUpdate(enrollment.course, { $inc: { enrollmentCount: -1 } })
CancelEnrollmentCount(r) ==
    /\ requests[r].pc = "cancelSaved"
    /\ enrollmentCount' =
           [ enrollmentCount EXCEPT ![requests[r].doc.course] = @ - 1 ]
    /\ requests' = [ requests EXCEPT ![r].pc = "cancelCounted" ]
    /\ UNCHANGED <<recommendationVars, enrollments, enrolledCourses>>

\* User.findByIdAndUpdate(studentId, { $pull: { enrolledCourses } }), and
\* the message is returned
CancelEnrollmentPull(r) ==
    /\ requests[r].pc = "cancelCounted"
    /\ enrolledCourses' =
           [ enrolledCourses EXCEPT
               ![requests[r].studentId.id] = pull(@, requests[r].doc.course) ]
    /\ Ends(r, "returned")
    /\ UNCHANGED <<recommendationVars, enrollments, enrollmentCount>>

\* PaymentController.processPayment of a student: the check of the session
\* id, then Course.findById.  (The model stops paying once the count of a
\* course has reached MaxCountDrift.)
ProcessPaymentStart(r, load) ==
    /\ requests[r].pc = "idle"
    /\ \E student \in load.payers, course \in load.courses,
          mockSession \in BOOLEAN :
          /\ course \in CourseIds => enrollmentCount[course] < MaxCountDrift
          /\ requests' = [ requests EXCEPT ![r] =
                             IF mockSession
                             THEN [ IdleRequest EXCEPT
                                      !.pc = "courseLoaded",
                                      !.op = "processPayment",
                                      !.studentId = UserIdOf(student),
                                      !.course = course,
                                      !.courseDoc = CourseFound(course) ]
                             ELSE [ IdleRequest EXCEPT
                                      !.pc = "done",
                                      !.op = "processPayment",
                                      !.studentId = UserIdOf(student),
                                      !.course = course,
                                      !.outcome = ERROR.INVALID_SESSION ] ]
    /\ UNCHANGED <<recommendationVars, enrollments, enrollmentCount,
                   enrolledCourses>>

\* the check on the course, paymentService.processPayment (a delay, always
\* a success), then Enrollment.findOne of completeEnrollmentAfterPayment
ProcessPaymentFindExisting(r) ==
    /\ requests[r].pc = "courseLoaded"
    /\ requests[r].op = "processPayment"
    /\ IF ~requests[r].courseDoc.found
       THEN Ends(r, ERROR.COURSE_NOT_FOUND)
       ELSE LET id == findOne(requests[r].studentId.id, requests[r].course)
            IN  requests' = [ requests EXCEPT
                                ![r].pc = "paymentEnrollmentLoaded",
                                ![r].enrollment = id,
                                ![r].doc = findById(id) ]
    /\ UNCHANGED <<recommendationVars, enrollments, enrollmentCount,
                   enrolledCourses>>

\* completeEnrollmentAfterPayment: the payment info is written to the
\* enrollment that was found (save), or an enrollment is created with
\* status 'active' (Enrollment.create); what it throws ends the request
\* in the catch block of the controller
ProcessPaymentEnroll(r) ==
    /\ requests[r].pc = "paymentEnrollmentLoaded"
    /\ LET created == preSave(newEnrollment(requests[r].studentId.id,
                                            requests[r].course))
       IN  IF requests[r].enrollment # 0
           THEN /\ requests[r].enrollment \in DOMAIN enrollments
                /\ enrollments' =
                       [ enrollments EXCEPT
                           ![requests[r].enrollment] =
                               savedOver(@, requests[r].doc,
                                         preSave(requests[r].doc)) ]
                /\ requests' = [ requests EXCEPT ![r].pc = "paymentEnrolled" ]
           ELSE IF duplicateKey(created)
           THEN /\ Ends(r, ERROR.PAYMENT_FAILED)
                /\ UNCHANGED enrollments
           ELSE /\ enrollments' = Append(enrollments, created)
                /\ requests' = [ requests EXCEPT
                                   ![r].pc = "paymentEnrolled",
                                   ![r].enrollment = Len(enrollments) + 1,
                                   ![r].doc = created ]
    /\ UNCHANGED <<recommendationVars, enrollmentCount, enrolledCourses>>

\* Course.findByIdAndUpdate(courseId, { $inc: { enrollmentCount: 1 } }),
\* and the success response
ProcessPaymentCount(r) ==
    /\ requests[r].pc = "paymentEnrolled"
    /\ enrollmentCount' =
           [ enrollmentCount EXCEPT ![requests[r].course] = @ + 1 ]
    /\ Ends(r, "returned")
    /\ UNCHANGED <<recommendationVars, enrollments, enrolledCourses>>

\* the caller has taken the outcome: the slot is free for the next request
Return(r) ==
    /\ requests[r].pc = "done"
    /\ requests' = [ requests EXCEPT ![r] = IdleRequest ]
    /\ UNCHANGED <<recommendationVars, enrollments, enrollmentCount,
                   enrolledCourses>>

(* Courses nobody has enrolled in yet (enrollmentCount at its default).     *)

InitEnrollment ==
    /\ env = [ OPENAI_API_KEY |-> FALSE, GROQ_API_KEY |-> FALSE ]
    /\ courseStatus = [ id \in CourseIds |-> CourseById(id).status ]
    /\ apiRequestCount = 0
    /\ requestsInWindow = << >>
    /\ lastServiceUsed = "null"
    /\ now = 0
    /\ calls = [ c \in Calls |-> IdleCall ]
    /\ dispatchLog = << >>
    /\ dispatchedTo = [ openai |-> 0, groq |-> 0 ]
    /\ enrollments = << >>
    /\ enrollmentCount = [ id \in CourseIds |-> 0 ]
    /\ enrolledCourses = [ student \in Students |-> << >> ]
    /\ requests = [ r \in Requests |-> IdleRequest ]

(* One operation after the other: a student enrolls, pays, progresses and   *)
(* cancels; another student and the controller's ObjectId try the same      *)
(* enrollments.                                                             *)

EnrollmentLoad ==
    [ enrollIds |-> {UserIdOf(1)},
      payers |-> {1},
      studentIds |-> { [ id |-> 1, objectId |-> FALSE ],
                       [ id |-> 1, objectId |-> TRUE ],
                       [ id |-> 2, objectId |-> FALSE ] },
      courses |-> {1, 4, UnknownCourse},
      progress |-> {0, 50, 100},
      lessons |-> {1, 2} ]

NextEnrollment ==
    \/ EnrollInCourseStart(1, EnrollmentLoad)
    \/ EnrollInCourseFindExisting(1)
    \/ EnrollInCourseSave(1)
    \/ EnrollInCourseCount(1)
    \/ EnrollInCoursePush(1)
    \/ UpdateProgressStart(1, EnrollmentLoad)
    \/ UpdateProgressSave(1)
    \/ CompleteLessonStart(1, EnrollmentLoad)
    \/ CompleteLessonSave(1)
    \/ CancelEnrollmentStart(1, EnrollmentLoad)
    \/ CancelEnrollmentSave(1)
    \/ CancelEnrollmentCount(1)
    \/ CancelEnrollmentPull(1)
    \/ ProcessPaymentStart(1, EnrollmentLoad)
    \/ ProcessPaymentFindExisting(1)
    \/ ProcessPaymentEnroll(1)
    \/ ProcessPaymentCount(1)
    \/ Return(1)

SpecEnrollment ==
    InitEnrollment /\ [][NextEnrollment]_vars

(* enrollInCourse invocations of two students that interleave at their      *)
(* awaits.                                                                  *)

ConcurrentEnrollLoad ==
    [ enrollIds |-> { UserIdOf(student) : student \in Students },
      courses |-> {1, 2, 4} ]

NextConcurrentEnroll ==
    \E r \in Requests :
        \/ EnrollInCourseStart(r, ConcurrentEnrollLoad)
        \/ EnrollInCourseFindExisting(r)
        \/ EnrollInCourseSave(r)
        \/ EnrollInCourseCount(r)
        \/ EnrollInCoursePush(r)
        \/ Return(r)

SpecConcurrentEnroll ==
    InitEnrollment /\ [][NextConcurrentEnroll]_vars

-----------------------------------------------------------------------------
(* Properties.                                                              *)

ChatDone(c) ==
    calls[c].op = "chat" /\ calls[c].pc = "done"

ChatReturned(c) ==
    ChatDone(c) /\ calls[c].result.status = "returned"

ChatAiDone(c) ==
    ChatReturned(c) /\ calls[c].result.aiGenerated

IsSearchFallback(result) ==
    /\ result.status = "returned"
    /\ ~result.aiGenerated
    /\ result.service = "db-search"

\* C1: a getChatRecommendations invocation made while canMakeApiRequest()
\* would return false sends no request to a provider and returns the
\* search fallback (aiGenerated false, service 'db-search').
C1_ClosedGateSendsNothing ==
    \A c \in Calls :
        (calls[c].op = "chat" /\ calls[c].gateClosed)
            => /\ ~calls[c].sent
               /\ calls[c].pc = "done" => IsSearchFallback(calls[c].result)

\* C2: for a non-empty query and a reachable catalog, getChatRecommendations
\* returns a result and never throws, whatever the provider does.
C2_ChatNeverThrows ==
    \A c \in Calls : ChatDone(c) => calls[c].result.status = "returned"

\* the requests sent within the rate-limit window that ends with request i
SentInWindowOf(i) ==
    { j \in 1 .. i : dispatchLog[i] - dispatchLog[j] < rateLimitWindow }

\* C3: since process start at most 250 requests are sent to AI providers,
\* and at most 10 within any 60-second window.
C3_DispatchesWithinLimits ==
    /\ Len(dispatchLog) <= maxApiRequests
    /\ \A i \in DOMAIN dispatchLog :
          Cardinality(SentInWindowOf(i)) <= maxRequestsPerMinute

\* C4: totalRequests of getApiUsageStats equals the number of provider
\* requests dispatched since process start.
C4_TotalRequestsCountsDispatches ==
    getApiUsageStats.totalRequests = dispatchedTo.openai + dispatchedTo.groq

\* a >= b for two scores kept as fractions, as JavaScript compares the
\* quotients: 0/0 is NaN (no comparison holds), n/0 is +Infinity or -Infinity
ScoreIsNaN(s) ==
    s.den = 0 /\ s.num = 0

ScoreGeq(a, b) ==
    /\ ~ScoreIsNaN(a)
    /\ ~ScoreIsNaN(b)
    /\ IF a.den = 0 THEN a.num > 0 \/ (b.den = 0 /\ b.num < 0)
       ELSE IF b.den = 0 THEN b.num < 0
       ELSE a.num * b.den >= b.num * a.den

\* C5: the list getChatRecommendations returns (AI path or fallback) is no
\* longer than the requested limit and its recommendationScore never
\* increases from one record to the next.
C5_AtMostLimitAndNonIncreasing ==
    \A c \in Calls :
        ChatReturned(c) =>
            LET courses == calls[c].result.courses
            IN  /\ Len(courses) <= calls[c].limit
                /\ \A i \in 1 .. Len(courses) - 1 :
                      ScoreGeq(courses[i].recommendationScore,
                               courses[i + 1].recommendationScore)

\* the position hints of a reply, one per comma-separated piece (0-based
\* index into the excerpt, -1 where the piece names no position)
ReplyHints(content) ==
    LET pieces == split(content, ",")
    IN  [ i \in 1 .. Len(pieces) |-> chatIndexOf(pieces[i]) ]

\* the places in the hint list whose hint names a course of the excerpt
ResolvablePlaces(content) ==
    SelectSeq([ i \in 1 .. Len(ReplyHints(content)) |-> i ],
              LAMBDA i : /\ ReplyHints(content)[i] >= 0
                         /\ ReplyHints(content)[i]
                              < Min(promptExcerptLimit, Len(publishedCourses)))

SameFraction(a, b) ==
    a.num * b.den = b.num * a.den

\* the records are the courses at the resolvable places of the reply, in
\* reply order, cut to the limit
ReturnsResolvableInReplyOrder(c) ==
    LET hints == ReplyHints(calls[c].content)
        places == ResolvablePlaces(calls[c].content)
        courses == calls[c].result.courses
    IN  /\ Len(courses) = Min(calls[c].limit, Len(places))
        /\ \A k \in 1 .. Len(courses) :
              courses[k].id = publishedCourses[hints[places[k]] + 1].id

\* C6 (as claimed): the records are the courses at the resolvable positions
\* in reply order, and each gets the score (N - rank) / N with N the number
\* of hints in the reply and rank the hint's 0-based place in the hint list.
C6_ScoreByPlaceInReply ==
    \A c \in Calls :
        ChatAiDone(c) =>
            LET hints == ReplyHints(calls[c].content)
                places == ResolvablePlaces(calls[c].content)
                courses == calls[c].result.courses
            IN  /\ ReturnsResolvableInReplyOrder(c)
                /\ \A k \in 1 .. Len(courses) :
                      SameFraction(courses[k].recommendationScore,
                                   [ num |-> Len(hints) - (places[k] - 1),
                                     den |-> Len(hints) ])

\* C6 (amended): the records are the courses at the resolvable positions in
\* reply order, cut to the limit, and each gets the score (M - r) / M with M
\* the number of records returned and r the record's 0-based place among
\* them ("2,1,3" over three courses: 3/3, 2/3, 1/3).
C6_ScoreByPlaceAmongReturned ==
    \A c \in Calls :
        ChatAiDone(c) =>
            LET courses == calls[c].result.courses
            IN  /\ ReturnsResolvableInReplyOrder(c)
                /\ \A k \in 1 .. Len(courses) :
                      SameFraction(courses[k].recommendationScore,
                                   [ num |-> Len(courses) - (k - 1),
                                     den |-> Len(courses) ])

\* C6 witness: an AI result for a reply with a hint beyond the excerpt, two
\* of whose three hints were resolved.
C6_Witness ==
    \E c \in Calls :
        /\ ChatAiDone(c)
        /\ calls[c].content = ContentOutOfRange
        /\ Len(calls[c].result.courses) = 2

\* C7: when the provider call succeeds but its text yields no usable
\* position, getChatRecommendations returns the search fallback, without
\* error, instead of an AI-labelled result.
C7_UnusableReplyFallsBack ==
    \A c \in Calls :
        ( /\ ChatDone(c)
          /\ calls[c].content # << >>
          /\ ResolvablePlaces(calls[c].content) = << >> )
            => IsSearchFallback(calls[c].result)

\* the number of the query's tokens found in the title, description, tags or
\* category of a course
TokensFound(course, query) ==
    LET text == joinWithSpace(<<course.title, course.description>>
                              \o course.tags \o <<course.category>>)
        terms == searchTermsOf(query)
    IN  Cardinality({ i \in 1 .. Len(terms) : CountMatches(text, terms[i]) > 0 })

\* C8: the keyword fallback orders the published courses it returns by the
\* number of query tokens they contain (then rating, then enrollment count):
\* a published course containing a token is returned, unless the limit is
\* used up, and is ranked above every course containing none.
C8_RankedByTokens ==
    \A c \in Calls :
        ( /\ ChatReturned(c)
          /\ ~calls[c].result.aiGenerated
          /\ calls[c].limit >= 1 )
            => LET courses == calls[c].result.courses
                   returned == { courses[i].id : i \in 1 .. Len(courses) }
               IN  /\ \A i \in 1 .. Len(courses) - 1 :
                         TokensFound(CourseById(courses[i].id), calls[c].query)
                           >= TokensFound(CourseById(courses[i + 1].id),
                                          calls[c].query)
                   /\ \A course \in Range(publishedCourses) :
                         TokensFound(course, calls[c].query) >= 1
                            => \/ course.id \in returned
                               \/ Len(courses) = calls[c].limit

\* C9: two searchCoursesBasic calls with the same query and limit over the
\* unchanged catalog return the same courses in the same order.
C9_SearchIsDeterministic ==
    \A c, d \in Calls :
        ( /\ ChatReturned(c) /\ ~calls[c].result.aiGenerated
          /\ ChatReturned(d) /\ ~calls[d].result.aiGenerated
          /\ calls[c].query = calls[d].query
          /\ calls[c].limit = calls[d].limit )
            => calls[c].result.courses = calls[d].result.courses

\* C10: under interleaved getChatRecommendations calls a result with
\* aiGenerated true is never labelled 'db-search', in service or in a
\* record's recommendationService.
C10_AiResultNotLabelledSearch ==
    \A c \in Calls :
        ChatAiDone(c) =>
            /\ calls[c].result.service # "db-search"
            /\ \A i \in 1 .. Len(calls[c].result.courses) :
                  calls[c].result.courses[i].recommendationService # "db-search"

AdviceCall(c) ==
    calls[c].op = "courseRecommendations"

\* gptService.getCourseRecommendations of the invocation has returned
AdviceReturned(c) ==
    AdviceCall(c) /\ calls[c].pc \in {"adviceReturned", "done"}

RequestOf(provider) ==
    [ event |-> "request", provider |-> provider ]

FailureOf(provider) ==
    [ event |-> "failure", provider |-> provider ]

\* C11: in one invocation of gptService.getCourseRecommendations each
\* provider is requested at most once, Groq is requested either first (no
\* OpenAI key) or right after the failure of the OpenAI request, never while
\* that request is in flight, and when the last provider asked has failed
\* the invocation returns the keyword fallback (fallback true), not an error.
C11_ProvidersAskedInTurn ==
    \A c \in Calls :
        AdviceCall(c) =>
            LET trace == calls[c].trace
            IN  /\ \A i, j \in DOMAIN trace :
                      (i < j /\ trace[i].event = "request"
                             /\ trace[j].event = "request")
                          => trace[i].provider # trace[j].provider
                /\ \A i \in DOMAIN trace :
                      trace[i] = RequestOf("groq")
                          => \/ i = 1 /\ ~env.OPENAI_API_KEY
                             \/ /\ i = 3
                                /\ trace[1] = RequestOf("openai")
                                /\ trace[2] = FailureOf("openai")
                /\ (trace # << >> /\ trace[Len(trace)].event = "failure")
                      => /\ AdviceReturned(c)
                         /\ calls[c].advice.fallback
                         /\ ~calls[c].advice.success

\* C11 witness: OpenAI failed, then Groq was asked and failed, and the
\* fallback was returned.
C11_Witness ==
    \E c \in Calls :
        /\ AdviceReturned(c)
        /\ calls[c].trace = <<RequestOf("openai"), FailureOf("openai"),
                              RequestOf("groq"), FailureOf("groq")>>
        /\ calls[c].advice.fallback

\* C12: with no provider key configured, getChatRecommendations,
\* generateAIRecommendations and gptService.getCourseRecommendations send no
\* request and return their fallback result (search fallback, basic
\* recommendations, keyword fallback).
C12_NoKeyNoRequest ==
    (~env.OPENAI_API_KEY /\ ~env.GROQ_API_KEY) =>
        /\ Len(dispatchLog) = 0
        /\ \A c \in Calls :
              /\ ~calls[c].sent
              /\ ChatDone(c) => IsSearchFallback(calls[c].result)
              /\ (calls[c].op = "personalized" /\ calls[c].pc = "done")
                    => /\ calls[c].result.status = "returned"
                       /\ calls[c].result.service = "basic"
              /\ AdviceReturned(c) => calls[c].advice.fallback

\* a step in which invocation c of generateAIRecommendations runs
\* canMakeApiRequest()
CheckRuns(c) ==
    /\ env.OPENAI_API_KEY
    /\ calls[c].pc = "idle"
    /\ calls'[c].op = "personalized"

\* C13: right after canMakeApiRequest() has returned false because of the
\* window limit, requestsInLastMinute of getApiUsageStats is at most the
\* per-minute ceiling.
C13_StatsWithinCeilingAfterRefusal ==
    [][ \A c \in Calls :
          ( /\ CheckRuns(c)
            /\ calls'[c].gateClosed
            /\ apiRequestCount < maxApiRequests )
              => getApiUsageStats'.requestsInLastMinute <= maxRequestsPerMinute
      ]_vars

\* C13 witness: a generateAIRecommendations invocation was refused while the
\* window held the per-minute ceiling of requests.
C13_Witness ==
    \E c \in Calls :
        /\ env.OPENAI_API_KEY
        /\ calls[c].op = "personalized"
        /\ calls[c].gateClosed
        /\ apiRequestCount < maxApiRequests
        /\ getApiUsageStats.requestsInLastMinute = maxRequestsPerMinute

\* the timestamps of a list that are less than one window old
Unexpired(window, t) ==
    SelectSeq(window, LAMBDA time : t - time < 60 * 1000)

\* C14 (as claimed): canMakeApiRequest() changes nothing: in a step that runs
\* it, apiRequestCount and requestsInWindow change only by what
\* trackApiRequest adds after a passed check.
C14_CheckChangesNothing ==
    [][ \A c \in Calls :
          CheckRuns(c) =>
              IF calls'[c].sent
              THEN /\ apiRequestCount' = apiRequestCount + 1
                   /\ requestsInWindow' = Append(requestsInWindow, now)
              ELSE /\ apiRequestCount' = apiRequestCount
                   /\ requestsInWindow' = requestsInWindow
      ]_vars

\* C14 (amended): canMakeApiRequest() never changes apiRequestCount; below
\* the total ceiling it replaces requestsInWindow by its timestamps less than
\* 60 seconds old, in order, and at the ceiling it leaves the list as it is.
C14_CheckOnlyDropsExpired ==
    [][ \A c \in Calls :
          CheckRuns(c) =>
              LET checked == IF apiRequestCount >= maxApiRequests
                             THEN requestsInWindow
                             ELSE Unexpired(requestsInWindow, now)
              IN  IF calls'[c].sent
                  THEN /\ apiRequestCount' = apiRequestCount + 1
                       /\ requestsInWindow' = Append(checked, now)
                  ELSE /\ apiRequestCount' = apiRequestCount
                       /\ requestsInWindow' = checked
      ]_vars

\* C14 witness: a request was tracked after its check dropped every older
\* timestamp, all of them one window old.
C14_Witness ==
    /\ now = rateLimitWindow
    /\ requestsInWindow = <<now>>
    /\ \E c \in Calls : calls[c].pc = "awaitOpenAI"

\* a step in which a recommendation invocation is made in slot c
InvocationStarts(c) ==
    calls[c].pc = "idle" /\ calls'[c].pc # "idle"

C16_NoExpiredTimestampAfterCheck ==
    [][ \A c \in Calls :
          CheckRuns(c) =>
              \A i \in DOMAIN requestsInWindow' :
                  now - requestsInWindow'[i] < rateLimitWindow
      ]_vars

\* C17: under interleaved generateAIRecommendations invocations
\* apiRequestCount never exceeds maxApiRequests and requestsInWindow never
\* holds more than maxRequestsPerMinute timestamps.
C17_NoOvershoot ==
    /\ apiRequestCount <= maxApiRequests
    /\ Len(requestsInWindow) <= maxRequestsPerMinute

\* C17 witness: two invocations are waiting for OpenAI together, with the
\* total ceiling reached and the window full.
C17_Witness ==
    /\ apiRequestCount = maxApiRequests
    /\ Len(requestsInWindow) = maxRequestsPerMinute
    /\ \A c \in Calls : calls[c].pc = "awaitOpenAI"

\* C18: a course appears once in an AI result of getChatRecommendations,
\* however often the reply names its position.
C18_NoCourseTwice ==
    \A c \in Calls :
        ChatAiDone(c) =>
            \A i, j \in DOMAIN calls[c].result.courses :
                i # j => calls[c].result.courses[i].id
                           # calls[c].result.courses[j].id

\* an invocation has returned records made from a provider reply
AiRecordsReturned(c) ==
    /\ calls[c].op \in {"chat", "personalized"}
    /\ calls[c].pc = "done"
    /\ calls[c].result.status = "returned"
    /\ calls[c].result.aiGenerated

\* the numbered list an invocation rendered into its prompt, by course id
ListedInPrompt(c) ==
    sliceFirst(calls[c].available, promptExcerptLimit)

\* the positions the pieces of the reply name (0 where a piece names none):
\* the first run of digits for getChatRecommendations, the leading digits
\* for generateAIRecommendations
PositionsNamed(c) ==
    LET pieces == split(calls[c].content, ",")
    IN  [ i \in 1 .. Len(pieces) |->
            IF calls[c].op = "chat"
            THEN chatIndexOf(pieces[i]) + 1
            ELSE IF parseIntMinusOne(pieces[i]).nan THEN 0
                 ELSE parseIntMinusOne(pieces[i]).value + 1 ]

\* C19: the records made from a reply are the courses at the named
\* positions of the numbered list of that invocation's prompt, in reply
\* order and cut to the limit; a position below 1 or beyond the list gives
\* no record.
C19_PositionsResolveInPromptList ==
    \A c \in Calls :
        AiRecordsReturned(c) =>
            LET listed == ListedInPrompt(c)
                accepted == sliceFirst(
                                SelectSeq(PositionsNamed(c),
                                          LAMBDA p : p >= 1 /\ p <= Len(listed)),
                                calls[c].limit)
            IN  IdsOf(calls[c].result.courses)
                  = [ k \in 1 .. Len(accepted) |-> listed[accepted[k]] ]

\* C19 witness: records were made from a reply with a position beyond the
\* prompt's list while the published courses had changed since the prompt
\* was built.
C19_Witness ==
    \E c \in Calls :
        /\ AiRecordsReturned(c)
        /\ calls[c].content = ContentOutOfRange
        /\ calls[c].available # IdsOf(publishedCourses)
        /\ Len(calls[c].available) = Len(publishedCourses)

\* the course of the catalog page whose title is the hint's title, case
\* ignored (0: none)
CourseTitled(title, availableCourses) ==
    FirstIndex({ i \in DOMAIN availableCourses :
                   toLowerCase(availableCourses[i].title) = toLowerCase(title) })

\* C20: a hint whose title is a catalog title, case ignored, and whose
\* courseId is no course's id resolves to the course of that title, also
\* when a course earlier in the catalog page contains the hint's title or is
\* contained in it.
C20_ExactTitleBeforeSubstring ==
    \A c \in Calls :
        ( /\ AdviceCall(c)
          /\ calls[c].pc = "done"
          /\ ~calls[c].advice.fallback )
            => LET availableCourses == availableCoursesOf(calls[c])
                   recs == calls[c].advice.recommendations
               IN  \A i \in DOMAIN recs :
                       LET titled == CourseTitled(recs[i].title, availableCourses)
                       IN  ( /\ titled # 0
                             /\ \A k \in DOMAIN availableCourses :
                                   ObjectIdString(availableCourses[k].id)
                                     # recs[i].courseId )
                               => /\ calls[c].result.status = "returned"
                                  /\ matchRecommendation(recs[i], availableCourses).course
                                       = availableCourses[titled].id
                                  /\ \E k \in DOMAIN calls[c].result.courses :
                                        calls[c].result.courses[k].id
                                          = availableCourses[titled].id


\* no hint of the advice resolves to a course of the page the controller read
NoHintResolves(c) ==
    LET availableCourses == availableCoursesOf(calls[c])
        recs == calls[c].advice.recommendations
    IN  \A i \in DOMAIN recs :
            LET match == matchRecommendation(recs[i], availableCourses)
            IN  ~match.thrown /\ match.course = 0

\* C21: when the provider's call succeeds but its reply yields no hint, or
\* only hints that resolve to no catalog course, the invocation is treated
\* like a failed call: gptService returns the keyword fallback's hints and
\* the response is marked as fallback.
C21_UselessReplyFallsBack ==
    \A c \in Calls :
        ( /\ AdviceCall(c)
          /\ calls[c].pc = "done"
          /\ calls[c].sent
          /\ calls[c].trace[Len(calls[c].trace)].event = "request"
          /\ NoHintResolves(c) )
            => /\ calls[c].advice.fallback
               /\ calls[c].advice.recommendations
                    = getFallbackRecommendations(calls[c].query,
                                                 availableCoursesOf(calls[c]))
               /\ calls[c].result.status = "returned"
                    => ~calls[c].result.aiGenerated


\* no enrollment request is in flight
Quiescent ==
    \A r \in Requests : requests[r].pc \in {"idle", "done"}

\* the request of the slot has just ended the operation op
Ended(r, op) ==
    requests[r].op = op /\ requests[r].pc = "done"

\* C22: whatever enrollInCourse, updateProgress, completeLesson,
\* cancelEnrollment and payment completions have run one after the other,
\* every stored enrollment whose progress percentage is 100 has status
\* 'completed' and a completionDate.
C22_FullProgressIsCompleted ==
    \A e \in DOMAIN enrollments :
        enrollments[e].percentage = 100
            => /\ enrollments[e].status = ENROLLMENT_STATUS.COMPLETED
               /\ enrollments[e].completionDate # "null"

\* updateProgress has brought a cancelled enrollment to 100 percent
C22_Witness ==
    \E r \in Requests :
        /\ Ended(r, "updateProgress")
        /\ requests[r].outcome = "returned"
        /\ requests[r].progress = 100
        /\ requests[r].doc.status = ENROLLMENT_STATUS.DROPPED
        /\ enrollments[requests[r].enrollment].percentage = 100

\* the caller of the request is the student of the enrollment it loaded
ByTheStudent(r) ==
    requests[r].studentId.id = requests[r].doc.student

\* C23: cancelEnrollment by the student of an enrollment whose status is
\* 'completed' fails with 'Cannot cancel completed enrollment' and leaves
\* the enrollment, the course's enrollmentCount and the student's
\* enrolledCourses unchanged.
C23_CompletedIsNotCancelled ==
    [][ \A r \in Requests :
          ( /\ requests[r].op = "cancelEnrollment"
            /\ requests[r].pc = "enrollmentLoaded"
            /\ requests[r].doc.status = ENROLLMENT_STATUS.COMPLETED
            /\ ByTheStudent(r)
            /\ requests'[r] # requests[r] )
              => /\ requests'[r].pc = "done"
                 /\ requests'[r].outcome = ERROR.CANNOT_CANCEL
                 /\ UNCHANGED <<enrollments, enrollmentCount, enrolledCourses>> ]_vars

\* the enrollments of a course that are not dropped
EnrolledIn(course) ==
    { e \in DOMAIN enrollments :
        /\ enrollments[e].course = course
        /\ enrollments[e].status # ENROLLMENT_STATUS.DROPPED }

\* C24: whatever enrollInCourse, cancelEnrollment and processPayment
\* operations have run, each course's enrollmentCount is the number of its
\* enrollments that are not 'dropped', and is not negative.
C24_CountIsEnrollments ==
    Quiescent =>
        \A course \in CourseIds :
            /\ enrollmentCount[course] = Cardinality(EnrolledIn(course))
            /\ enrollmentCount[course] >= 0

\* C25: after enrollInCourse invocations on the same course that interleave
\* at their awaits, there is at most one enrollment per student and course,
\* and the course's enrollmentCount has grown by the number of enrollments
\* created.
C25_ConcurrentEnrollsCounted ==
    Quiescent =>
        /\ \A e, f \in DOMAIN enrollments :
              ( /\ enrollments[e].student = enrollments[f].student
                /\ enrollments[e].course = enrollments[f].course ) => e = f
        /\ \A course \in CourseIds :
              enrollmentCount[course]
                = Cardinality({ e \in DOMAIN enrollments :
                                  enrollments[e].course = course })

\* C26: no step of updateProgress or completeLesson changes the status of
\* an enrollment that cancelEnrollment has set to 'dropped'.
C26_DroppedIsTerminal ==
    [][ \A r \in Requests :
          ( /\ requests[r].op \in {"updateProgress", "completeLesson"}
            /\ requests'[r] # requests[r] )
              => \A e \in DOMAIN enrollments :
                     enrollments[e].status = ENROLLMENT_STATUS.DROPPED
                         => enrollments'[e].status = ENROLLMENT_STATUS.DROPPED ]_vars

\* C27: whatever updateProgress and completeLesson calls have run, every
\* stored enrollment with status 'completed' has progress percentage 100.
C27_CompletedIsFullProgress ==
    \A e \in DOMAIN enrollments :
        enrollments[e].status = ENROLLMENT_STATUS.COMPLETED
            => enrollments[e].percentage = 100

=============================================================================
